---------------------------- MODULE Spec2Model ----------------------------
(***************************************************************************)
(* A model of glox, a tree-walking interpreter for the lox language.       *)
(*                                                                         *)
(* The model covers the error flags (lox_error.LoxErrors), the driver      *)
(* (repl.RunFile / RunPrompt / run), the resolver and the evaluator        *)
(* (interpreter.Interpreter, Environment, LoxFunction).  Programs are      *)
(* abstract syntax trees as the parser builds them; the evaluator and the  *)
(* resolver are recursive operators over these trees that thread the       *)
(* interpreter (resp. resolver) state, exactly as the visitors do.         *)
(*                                                                         *)
(* Go panics (runtime errors and the return/break/continue signals) are    *)
(* the field sig of the threaded state: an operator that finds sig set     *)
(* after a sub-evaluation returns at once, which is what unwinding does,   *)
(* and the deferred recover() handlers are the places that clear it.       *)
(*                                                                         *)
(* Numbers are float64 in the program; the model uses the integers, which  *)
(* is exact for the integer-valued numbers the checked programs compute,   *)
(* and the numbers x + 0.5, which the programs use as indices only.        *)
(***************************************************************************)
EXTENDS Integers, Sequences, FiniteSets, TLC

VARIABLES
    mode,       \* "file" (RunFile) or "prompt" (RunPrompt)
    pc,         \* position of the driver inside RunFile / RunPrompt / run
    input,      \* the source text being run, as the facts the stages see
    parser,     \* the Parser object of the current input
    errors,     \* the LoxErrors object shared by all stages
    ipr,        \* the Interpreter object (environment, heap, locals)
    result,     \* what Interpret returned for the current input
    stages,     \* the stages run() has executed for the current input
    reported,   \* the error categories reported for the current input
    exitCode,   \* the process exit code once the process has ended, else -1
    nInputs,    \* number of inputs read so far
    classes,    \* the LoxClass objects of the heap, a class's index its address
    found       \* what the last operation on a class returned

vars == <<mode, pc, input, parser, errors, ipr, result, stages, reported,
          exitCode, nInputs,
         classes, found>>

-----------------------------------------------------------------------------
(* Bounds of the model.                                                    *)

\* Largest loop bound K / break target N of the generated loop programs.
MaxK == 2
\* Deepest nesting of blocks between a signal and the construct catching it.
MaxDepth == 2
\* Longest array / string of the one-shot expression evaluations.
MaxLen == 3
\* Inputs read by one REPL session.
MaxInputs == 2
\* Tokens of a text before its EOF.
MaxTokens == 4
\* classes of a heap
MaxClasses == 2
\* Iterations any single run may spend in loops before it is cut off; the
\* programs of the model need fewer, so a run that hits it did not terminate.
MaxFuel == 12

-----------------------------------------------------------------------------
(* Values.  Every value is a record of the same shape; k is the dynamic    *)
(* Go type held by the `any`.                                              *)

MkValue(k, n, s, off, len) ==
    [k |-> k, n |-> n, s |-> s, off |-> off, len |-> len]

Nil == MkValue("nil", 0, <<>>, 0, 0)
Bool(b) == MkValue("bool", IF b THEN 1 ELSE 0, <<>>, 0, 0)
Num(x) == MkValue("num", x, <<>>, 0, 0)
\* the float64 x + 0.5, for a natural number x
Half(x) == MkValue("num", x, <<>>, 1, 0)
\* a Go string, as its sequence of bytes
Str(cs) == MkValue("str", 0, cs, 0, 0)
\* a LoxArray: a Go slice (pointer to backing array, offset, length); its
\* capacity is what is left of the backing array after the offset
Arr(p, off, len) == MkValue("arr", p, <<>>, off, len)
\* a *LoxFunction
Fn(ref) == MkValue("fn", ref, <<>>, 0, 0)
\* a native callable, a value of an empty struct type
Native(name) == MkValue("native", 0, <<name>>, 0, 0)
\* a LoxMap: a Go map, a reference to the table in the heap
Map(ref) == MkValue("map", ref, <<>>, 0, 0)

NativeNames ==
    {"clock", "print", "string", "len", "map", "filter", "reduce",
     "hasKey", "size", "values", "keys"}

isTruthy(v) ==
    IF v.k = "nil" THEN FALSE
    ELSE IF v.k = "bool" THEN v.n = 1
    ELSE TRUE

\* value == float64(int(value)), where int truncates x + 0.5 to x
isInteger(value) == value.off = 0

\* The elements of a slice value, read from the heap of backing arrays.
Elems(arrs, a) == [i \in 1..a.len |-> arrs[a.n][a.off + i]]

-----------------------------------------------------------------------------
(* Signals: what a Go panic carries.                                       *)

NoSig == [k |-> "none", v |-> Nil]
\* lox_error.RuntimeError: a reported runtime error
ErrSig == [k |-> "error", v |-> Nil]
\* a panic raised by the Go runtime itself, reported nowhere
GoPanicSig == [k |-> "gopanic", v |-> Nil]
LoxBreak == [k |-> "break", v |-> Nil]
LoxContinue == [k |-> "continue", v |-> Nil]
LoxReturn(v) == [k |-> "return", v |-> v]
\* the run was cut off by MaxFuel
FuelSig == [k |-> "fuel", v |-> Nil]

Panicking(st) == st.sig.k # "none"

-----------------------------------------------------------------------------
(* lox_error.LoxErrors: the four flags, their setters and their queries.   *)

NewLoxErrors ==
    [hadScanningError |-> FALSE, hadParsingError |-> FALSE,
     hadResolutionError |-> FALSE, hadRuntimeError |-> FALSE]

ScannerError(l) == [l EXCEPT !.hadParsingError = TRUE]

ParserError(l) == [l EXCEPT !.hadParsingError = TRUE]

ResolutionError(l) == [l EXCEPT !.hadResolutionError = TRUE]

RuntimeError(l) == [l EXCEPT !.hadRuntimeError = TRUE]

\* a query that reads the field named after it
HadScanningErrorOwnField(l) == l.hadScanningError

HadScanningError(l) == l.hadParsingError

HadParsingError(l) == l.hadParsingError

HadRuntimeError(l) == l.hadRuntimeError

HadResolutionError(l) == l.hadResolutionError

ResetError(l) ==
    [l EXCEPT !.hadScanningError = FALSE, !.hadParsingError = FALSE,
              !.hadRuntimeError = FALSE, !.hadResolutionError = FALSE]

-----------------------------------------------------------------------------
(* The syntax tree (package ast), as the parser builds it.  A node the     *)
(* resolver may annotate carries its identity id; an absent optional       *)
(* child is NoExpr / NoStmt.                                               *)

NoExpr == [t |-> "none"]
NoStmt == [t |-> "nostmt"]

LiteralExpression(v) == [t |-> "lit", v |-> v]
VariableExpression(id, name) == [t |-> "var", id |-> id, name |-> name]
AssignmentExpression(id, name, value) ==
    [t |-> "assign", id |-> id, name |-> name, value |-> value]
BinaryExpression(left, op, right) ==
    [t |-> "bin", left |-> left, op |-> op, right |-> right]
GroupingExpression(e) == [t |-> "group", expr |-> e]
UnaryExpression(op, e) == [t |-> "unary", op |-> op, expr |-> e]
ArrayExpression(items) == [t |-> "array", items |-> items]
IndexExpression(object, leftIndex, rightIndex) ==
    [t |-> "index", object |-> object, leftIndex |-> leftIndex,
     rightIndex |-> rightIndex]
CallExpression(callee, arguments) ==
    [t |-> "call", callee |-> callee, arguments |-> arguments]
SequenceExpression(items) == [t |-> "seq", items |-> items]
MapExpression(keys, values) == [t |-> "map", keys |-> keys, values |-> values]
IndexedAssignmentExpression(left, value) ==
    [t |-> "indexassign", left |-> left, value |-> value]

\* name "" is the nil Name of a lambda's function, whose Kind is the zero
\* value NOT_METHOD
FunctionStatement(name, params, body, kind) ==
    [t |-> "fun", name |-> name, params |-> params, body |-> body,
     kind |-> kind]
LambdaExpression(params, body) ==
    [t |-> "lambda",
     function |-> FunctionStatement("", params, body, "NOT_METHOD")]

ExpressionStatement(e) == [t |-> "expr", expr |-> e]
VarStatement(name, initializer) ==
    [t |-> "vardecl", name |-> name, initializer |-> initializer]
BlockStatement(statements) == [t |-> "block", statements |-> statements]
IfStatement(condition, consequence, alternative) ==
    [t |-> "if", condition |-> condition, consequence |-> consequence,
     alternative |-> alternative]
LoopStatement(condition, body, increment) ==
    [t |-> "loop", condition |-> condition, body |-> body,
     increment |-> increment]
ForEachStatement(name, array, body) ==
    [t |-> "foreach", name |-> name, array |-> array, body |-> body]
ReturnStatement(value) == [t |-> "return", value |-> value]
\* superclass is a VariableExpression or NoExpr; methods are
\* FunctionStatements
ClassStatement(name, superclass, methods) ==
    [t |-> "class", name |-> name, superclass |-> superclass,
     methods |-> methods]
BreakStatement == [t |-> "break"]
ContinueStatement == [t |-> "continue"]

-----------------------------------------------------------------------------
(* interpreter.Environment.  Environments live in the heap ipr.envs and    *)
(* are named by their index; 0 is the nil pointer.                         *)

NewEnvironment(values) == [enclosing |-> 0, values |-> values]

\* the state with a fresh environment appended; its index is Len(envs)
NewEnclosingEnvironment(st, enclosing) ==
    [st EXCEPT !.envs = Append(@, [enclosing |-> enclosing, values |-> <<>>])]

RECURSIVE ancestor(_, _, _)
\* 0 when the chain ends before the distance is walked (Go: nil dereference)
ancestor(envs, e, distance) ==
    IF e = 0 \/ distance = 0 THEN e
    ELSE ancestor(envs, envs[e].enclosing, distance - 1)

Has(envs, e, name) == name \in DOMAIN envs[e].values

define(st, e, name, value) ==
    [st EXCEPT !.envs[e].values = (name :> value) @@ @]

RECURSIVE lookup(_, _, _)
\* the environment of the chain from e that binds name, 0 if none does
lookup(envs, e, name) ==
    IF e = 0 THEN 0
    ELSE IF Has(envs, e, name) THEN e
    ELSE lookup(envs, envs[e].enclosing, name)

\* Environment.get: the value, or a reported runtime error for the caller
get(st, e, name) ==
    LET at == lookup(st.envs, e, name)
    IN  IF at # 0
        THEN [st EXCEPT !.val = st.envs[at].values[name]]
        ELSE [st EXCEPT !.errors = RuntimeError(@), !.sig = ErrSig]

\* Environment.getAt: a Go map read, which yields nil for an absent key
getAt(st, e, distance, name) ==
    LET at == ancestor(st.envs, e, distance)
    IN  IF at = 0 THEN [st EXCEPT !.sig = GoPanicSig, !.absent = TRUE]
        ELSE IF Has(st.envs, at, name)
        THEN [st EXCEPT !.val = st.envs[at].values[name]]
        ELSE [st EXCEPT !.val = Nil, !.absent = TRUE]

\* Environment.assign: the error of the enclosing chain is dropped, and the
\* caller (VisitAssignmentExpression) drops the one of the outermost too
assign(st, e, name, value) ==
    LET at == lookup(st.envs, e, name)
    IN  IF at # 0
        THEN [st EXCEPT !.envs[at].values[name] = value]
        ELSE [st EXCEPT !.errors = RuntimeError(@)]

\* Environment.assignAt: a Go map write, which creates an absent key
assignAt(st, e, distance, name, value) ==
    LET at == ancestor(st.envs, e, distance)
    IN  IF at = 0 THEN [st EXCEPT !.sig = GoPanicSig, !.absent = TRUE]
        ELSE [st EXCEPT !.envs[at].values = (name :> value) @@ @,
                        !.absent = @ \/ ~Has(st.envs, at, name)]

-----------------------------------------------------------------------------
(* interpreter.Interpreter.  The threaded state st is the Interpreter      *)
(* object together with the heap it points into:                           *)
(*   environment  i.environment (globals is environment 1)                 *)
(*   envs, fns, arrs, maps  the heap of Environments, LoxFunctions,        *)
(*                arrays and maps                                          *)
(*   locals       i.locals, node identity -> distance                      *)
(*   errors       the LoxErrors the runtime errors are reported to         *)
(*   sig, val     the panic in flight, the value of the last expression    *)
(*   out, text    the values print was called with, and what it wrote      *)
(*   order        the order in which this run iterates over Go maps        *)
(*   fuel         loop iterations left to this run                         *)
(*   events, absent  observations: the signals caught and the constructs   *)
(*                completed, and whether getAt / assignAt met an absent    *)
(*                name                                                     *)

globals == 1

NewInterpreter ==
    [environment |-> globals,
     envs |-> << NewEnvironment([n \in NativeNames |-> Native(n)]) >>,
     fns |-> <<>>, arrs |-> <<>>, maps |-> <<>>, locals |-> <<>>,
     errors |-> NewLoxErrors, sig |-> NoSig, val |-> Nil, out |-> <<>>,
     fuel |-> MaxFuel, events |-> <<>>, absent |-> FALSE,
     text |-> <<>>, order |-> "forward", reports |-> <<>>, calls |-> <<>>]

\* panic(lox_error.RuntimeError(token, message))
Throw(st) == [st EXCEPT !.errors = RuntimeError(@), !.sig = ErrSig]

\* panic(lox_error.RuntimeError(token, message)), the message kept as the
\* reporter is given it; a formatted message is its format and its operands
ThrowMessage(st, message) == [Throw(st) EXCEPT !.reports = Append(@, message)]

Note(st, event) == [st EXCEPT !.events = Append(@, event)]

\* a LoxFunction.Call is over: what it ended by ("none": it returned
\* without a panic, else the kind of the panic that left or was recovered)
Ended(st, by) == [st EXCEPT !.calls = Append(@, by)]

\* a signal was caught by a call, loop or iteration: the environment that
\* was current when the construct began, the one current when the signal
\* arrived at the handler, and the one current when the handler is done
Caught(by, signal, start, raised, after) ==
    [ev |-> "caught", by |-> by, sig |-> signal, start |-> start,
     raised |-> raised, after |-> after]

\* a call, loop or iteration has finished without a signal reaching it
Done(by, start, after) ==
    [ev |-> "done", by |-> by, sig |-> "none", start |-> start,
     raised |-> start, after |-> after]

\* Go's == on two `any` values: false for different dynamic types, a
\* run-time panic for two values of one uncomparable type (slice, map),
\* and the comparison of the values otherwise (pointers by identity).
Comparable(v) == v.k \notin {"arr", "map"}

GoEqual(l, r) == l = r

\* NewLoxFunction keeping a copy of the environment in the place of the
\* pointer to it
NewLoxFunctionCopies(st, declaration, closure) ==
    [st EXCEPT !.envs = Append(@, st.envs[closure]),
               !.fns = Append(@, [declaration |-> declaration,
                                  closure |-> Len(st.envs) + 1]),
               !.val = Fn(Len(st.fns) + 1)]

NewLoxFunction(st, declaration, closure) ==
    [st EXCEPT !.fns = Append(@, [declaration |-> declaration,
                                  closure |-> closure]),
               !.val = Fn(Len(st.fns) + 1)]

IsCallable(v) == v.k \in {"fn", "native"}

NativeArity(name) ==
    CASE name = "clock" -> 0
      [] name \in {"print", "string", "len", "size", "keys", "values"} -> 1
      [] name \in {"map", "filter", "hasKey"} -> 2
      [] name = "reduce" -> 3

Arity(st, f) ==
    IF f.k = "fn" THEN Len(st.fns[f.n].declaration.params)
    ELSE NativeArity(f.s[1])

\* make(LoxArray, n) filled with the given elements
NewArray(st, elems) ==
    [st EXCEPT !.arrs = Append(@, elems),
               !.val = Arr(Len(st.arrs) + 1, 0, Len(elems))]

\* Go's append(l, r...): in place when the capacity of l allows it (the
\* elements land in l's backing array after l's own), else into a new
\* backing array
GoAppend(st, l, r) ==
    LET rs == Elems(st.arrs, r)
        cap == Len(st.arrs[l.n]) - l.off
    IN  IF l.len + r.len <= cap
        THEN [st EXCEPT
                !.arrs[l.n] = [i \in 1..Len(@) |->
                    IF i > l.off + l.len /\ i <= l.off + l.len + r.len
                    THEN rs[i - l.off - l.len] ELSE @[i]],
                !.val = Arr(l.n, l.off, l.len + r.len)]
        ELSE NewArray(st, Elems(st.arrs, l) \o rs)

LowerCase ==
    <<"a", "b", "c", "d", "e", "f", "g", "h", "i", "j", "k", "l", "m", "n",
      "o", "p", "q", "r", "s", "t", "u", "v", "w", "x", "y", "z">>

\* []byte(v): the byte of a character of a key (keys are lower-case words)
Ascii(c) == 96 + (CHOOSE i \in 1..Len(LowerCase) : LowerCase[i] = c)

RECURSIVE Xor(_, _)
\* the bitwise exclusive or of two bytes
Xor(a, b) ==
    IF a = 0 THEN b
    ELSE IF b = 0 THEN a
    ELSE ((a + b) % 2) + 2 * Xor(a \div 2, b \div 2)

\* hash/fnv's offset64, 0xcbf29ce484222325; a uint64 is held as its eight
\* bytes, the least significant first
FnvOffset64 == <<37, 35, 34, 132, 228, 156, 242, 203>>

RECURSIVE Carry(_, _, _)
\* the bytes of the number whose digits in base 256 are ds, from digit i
\* on with c carried in; the carry out of the last byte is dropped, which
\* is the arithmetic of uint64
Carry(ds, i, c) ==
    IF i > Len(ds) THEN <<>>
    ELSE <<(ds[i] + c) % 256>> \o Carry(ds, i + 1, (ds[i] + c) \div 256)

\* hash *= prime64, where prime64 = 0x100000001b3 = 2^40 + 435
FnvMultiply(h) ==
    Carry([i \in 1..8 |-> h[i] * 435 + (IF i > 5 THEN h[i - 5] ELSE 0)],
          1, 0)

RECURSIVE FnvWrite(_, _)
\* sum64a.Write: for each byte, hash ^= byte and then hash *= prime64
FnvWrite(h, cs) ==
    IF cs = <<>> THEN h
    ELSE FnvWrite(FnvMultiply([h EXCEPT ![1] = Xor(@, Ascii(Head(cs)))]),
                  Tail(cs))

\* Hash: the FNV-1a hash of the key, an int of 64 bits
Hash(v) == FnvWrite(FnvOffset64, v)

\* A LoxMap in the heap: its MapPairs with the hash each is stored under,
\* in the order the hashes were first stored.
MapSlot(m, hash) == {i \in 1..Len(m) : m[i].hash = hash}

\* m[hash] = MapPair{key, value}
MapStore(m, key, value) ==
    LET pair == [hash |-> Hash(key), key |-> key, value |-> value]
        at == MapSlot(m, pair.hash)
    IN  IF at = {} THEN Append(m, pair)
        ELSE [m EXCEPT ![CHOOSE i \in at : TRUE] = pair]

\* make(LoxMap, n)
NewMap(st) ==
    [st EXCEPT !.maps = Append(@, <<>>), !.val = Map(Len(st.maps) + 1)]

Reverse(s) == [i \in 1..Len(s) |-> s[Len(s) + 1 - i]]

\* maps.Values(m): the pairs in the order Go iterates the map, which the
\* language leaves open; the maps of the model hold at most two pairs, so
\* the two orders are all there are
MapValues(st, m) ==
    IF st.order = "forward" THEN st.maps[m.n] ELSE Reverse(st.maps[m.n])

MapOrders == {"forward", "backward"}

RECURSIVE Digits(_)
\* the decimal digits of a natural number, as strconv.FormatFloat writes
\* an integer-valued float64
Digits(n) ==
    LET d == <<"0", "1", "2", "3", "4", "5", "6", "7", "8", "9">>
    IN  IF n < 10 THEN <<d[n + 1]>> ELSE Digits(n \div 10) \o <<d[(n % 10) + 1]>>

\* the letters of the names that the programs of the model give to
\* functions, and of the natives they take the representation of
Spell(name) ==
    CASE name = "f" -> <<"f">>
      [] name = "len" -> <<"l", "e", "n">>
      [] name = "print" -> <<"p", "r", "i", "n", "t">>

\* LoxFunction.String and the String of a native
CallableString(st, v) ==
    IF v.k = "native"
    THEN <<"<", "n", "a", "t", "i", "v", "e", " ", "f", "n", " ">>
         \o Spell(v.s[1]) \o <<">">>
    ELSE IF st.fns[v.n].declaration.name # ""
    THEN <<"<", "f", "n", " ">> \o Spell(st.fns[v.n].declaration.name)
         \o <<">">>
    ELSE <<"<", "l", "a", "m", "b", "d", "a", ">">>

RECURSIVE Representation(_, _)
RECURSIVE JoinRepresentations(_, _)

\* strings.Join(itemStrings, ", ")
JoinRepresentations(st, items) ==
    IF items = <<>> THEN <<>>
    ELSE Representation(st, Head(items))
         \o (IF Len(items) = 1 THEN <<>>
             ELSE <<",", " ">> \o JoinRepresentations(st, Tail(items)))

Representation(st, v) ==
    CASE v.k = "nil" -> <<"n", "i", "l">>
      [] v.k = "str" -> <<"\"">> \o v.s \o <<"\"">>
      [] v.k = "bool" -> IF v.n = 1 THEN <<"t", "r", "u", "e">>
                         ELSE <<"f", "a", "l", "s", "e">>
      [] v.k = "num" ->
            IF v.off = 1 THEN Digits(v.n) \o <<".", "5">>
            ELSE IF v.n < 0 THEN <<"-">> \o Digits(-v.n)
            ELSE Digits(v.n)
      [] v.k = "arr" ->
            <<"[">> \o JoinRepresentations(st, Elems(st.arrs, v)) \o <<"]">>
      [] v.k = "map" -> <<"<", "m", "a", "p", ">">>
      [] v.k \in {"fn", "native"} -> CallableString(st, v)

PrintRepresentation(st, v) ==
    CASE v.k = "str" -> v.s
      [] v.k \in {"nil", "bool", "num", "arr", "fn", "native"} ->
            Representation(st, v)
      [] OTHER -> <<"<", "o", "b", "j", "e", "c", "t", ">">>

\* the native callables the model calls; Throw is the error they return,
\* which VisitCallExpression reports and panics with
CallNative(st, name, arguments) ==
    CASE name = "print" ->
            [st EXCEPT !.out = Append(@, arguments[1]),
                       !.text = Append(@, PrintRepresentation(st, arguments[1])
                                          \o <<"\n">>),
                       !.val = Nil]
      [] name = "string" ->
            IF arguments[1].k = "str" THEN [st EXCEPT !.val = arguments[1]]
            ELSE [st EXCEPT !.val = Str(Representation(st, arguments[1]))]
      [] name = "len" ->
            IF arguments[1].k = "arr"
            THEN [st EXCEPT !.val = Num(arguments[1].len)]
            ELSE IF arguments[1].k = "str"
            THEN [st EXCEPT !.val = Num(Len(arguments[1].s))]
            ELSE Throw(st)
      [] name = "size" ->
            IF arguments[1].k = "map"
            THEN [st EXCEPT !.val = Num(Len(st.maps[arguments[1].n]))]
            ELSE Throw(st)
      [] name = "hasKey" ->
            IF arguments[1].k # "map" THEN Throw(st)
            ELSE IF arguments[2].k # "str" THEN Throw(st)
            ELSE [st EXCEPT !.val =
                    Bool(MapSlot(st.maps[arguments[1].n],
                                 Hash(arguments[2].s)) # {})]
      [] name = "values" ->
            IF arguments[1].k # "map" THEN Throw(st)
            ELSE LET pairs == MapValues(st, arguments[1])
                 IN  [st EXCEPT
                        !.arrs = Append(@, [i \in 1..Len(pairs) |->
                                               pairs[i].value]),
                        !.val = Arr(Len(st.arrs) + 1, 0, Len(pairs))]
      [] name = "keys" ->
            IF arguments[1].k # "map" THEN Throw(st)
            ELSE LET pairs == MapValues(st, arguments[1])
                 IN  [st EXCEPT
                        !.arrs = Append(@, [i \in 1..Len(pairs) |->
                                               Str(pairs[i].key)]),
                        !.val = Arr(Len(st.arrs) + 1, 0, Len(pairs))]

concatenate(st, stringValue, otherValue, reverse) ==
    IF otherValue.k \notin {"num", "bool"} THEN Throw(st)
    ELSE [st EXCEPT !.val =
            IF reverse THEN Str(Representation(st, otherValue) \o stringValue)
            ELSE Str(stringValue \o Representation(st, otherValue))]

RECURSIVE evaluate(_, _)
RECURSIVE execute(_, _)
RECURSIVE evaluateAll(_, _, _)
RECURSIVE executeStatements(_, _)
RECURSIVE LoopStatementIterations(_, _)
RECURSIVE ForEachIterations(_, _, _, _)
RECURSIVE InterpretStatements(_, _, _)
RECURSIVE SequenceItems(_, _)
RECURSIVE MapExpressionItems(_, _, _, _)

\* the values of the expressions es, left to right, appended to st.vals
evaluateAll(es, st, acc) ==
    IF es = <<>> THEN [st |-> st, vals |-> acc]
    ELSE LET s1 == evaluate(Head(es), st)
         IN  IF Panicking(s1) THEN [st |-> s1, vals |-> acc]
             ELSE evaluateAll(Tail(es), s1, Append(acc, s1.val))

lookupVariable(st, name, expression) ==
    IF expression.id \in DOMAIN st.locals
    THEN getAt(st, st.environment, st.locals[expression.id], name)
    ELSE get(st, globals, name)

VisitAssignmentExpression(e, st) ==
    LET s1 == evaluate(e.value, st)
        value == s1.val
        s2 == IF e.id \in DOMAIN s1.locals
              THEN assignAt(s1, s1.environment, s1.locals[e.id], e.name, value)
              ELSE assign(s1, globals, e.name, value)
    IN  IF Panicking(s1) THEN s1
        ELSE IF Panicking(s2) THEN s2
        ELSE [s2 EXCEPT !.val = value]

VisitUnaryExpression(ue, st) ==
    LET s1 == evaluate(ue.expr, st)
        right == s1.val
    IN  IF Panicking(s1) THEN s1
        ELSE IF ue.op = "!" THEN [s1 EXCEPT !.val = Bool(~isTruthy(right))]
        ELSE IF right.k = "num" THEN [s1 EXCEPT !.val = Num(-right.n)]
        ELSE Throw(s1)

VisitArrayExpression(e, st) ==
    LET r == evaluateAll(e.items, st, <<>>)
    IN  IF Panicking(r.st) THEN r.st ELSE NewArray(r.st, r.vals)

VisitBinaryExpression(be, st) ==
    LET s1 == evaluate(be.left, st)
        left == s1.val
        s2 == evaluate(be.right, s1)
        right == s2.val
        bothNum == left.k = "num" /\ right.k = "num"
    IN  IF Panicking(s1) THEN s1
        ELSE IF Panicking(s2) THEN s2
        ELSE CASE be.op \in {"==", "!="} ->
                    IF left.k = right.k /\ ~Comparable(left)
                    THEN [s2 EXCEPT !.sig = GoPanicSig]
                    ELSE [s2 EXCEPT !.val =
                            Bool(GoEqual(left, right) <=> (be.op = "=="))]
               [] be.op = "+" ->
                    IF bothNum THEN [s2 EXCEPT !.val = Num(left.n + right.n)]
                    ELSE IF left.k = "arr" /\ right.k = "arr"
                    THEN GoAppend(s2, left, right)
                    ELSE IF left.k = "str" /\ right.k = "str"
                    THEN [s2 EXCEPT !.val = Str(left.s \o right.s)]
                    ELSE IF left.k = "str"
                    THEN concatenate(s2, left.s, right, FALSE)
                    ELSE IF right.k = "str"
                    THEN concatenate(s2, right.s, left, TRUE)
                    ELSE Throw(s2)
               [] OTHER ->
                    IF ~bothNum THEN Throw(s2)
                    ELSE [s2 EXCEPT !.val =
                            CASE be.op = "-" -> Num(left.n - right.n)
                              [] be.op = "*" -> Num(left.n * right.n)
                              [] be.op = ">" -> Bool(left.n > right.n)
                              [] be.op = ">=" -> Bool(left.n >= right.n)
                              [] be.op = "<" -> Bool(left.n < right.n)
                              [] be.op = "<=" -> Bool(left.n <= right.n)]

arrayIndexExpression(e, st) ==
    LET s1 == evaluate(e.object, st)
        object == s1.val
        s2 == evaluate(e.leftIndex, s1)
        leftIsNumber == s2.val.k = "num"
        leftIndex == s2.val.n
        hasRight == e.rightIndex # NoExpr
        s3 == IF hasRight THEN evaluate(e.rightIndex, s2) ELSE s2
        rightIsNumber == hasRight /\ s3.val.k = "num"
        rightIndex == s3.val.n
        length == IF object.k = "arr" THEN object.len ELSE Len(object.s)
    IN  IF Panicking(s1) THEN s1
        ELSE IF Panicking(s2) THEN s2
        ELSE IF Panicking(s3) THEN s3
        ELSE IF ~leftIsNumber \/ ~isInteger(s2.val)
        THEN ThrowMessage(s3, <<"Index must be integer">>)
        ELSE IF rightIsNumber /\ (~rightIsNumber \/ ~isInteger(s3.val))
        THEN ThrowMessage(s3, <<"Index must be integer">>)
        ELSE IF object.k \notin {"arr", "str"}
        THEN ThrowMessage(s3, <<"Unreachable">>)
        ELSE IF leftIndex < 0 \/ leftIndex >= length
                \/ (rightIsNumber /\ (rightIndex < 0 \/ rightIndex > length))
        THEN ThrowMessage(s3, <<"Index is out of range">>)
        ELSE IF rightIsNumber /\ leftIndex > rightIndex
        THEN ThrowMessage(s3, <<"Right index of slice must be greater or equal to left index">>)
        ELSE IF object.k = "arr"
        THEN [s3 EXCEPT !.val =
                IF rightIsNumber
                THEN Arr(object.n, object.off + leftIndex,
                         rightIndex - leftIndex)
                ELSE s3.arrs[object.n][object.off + leftIndex + 1]]
        ELSE [s3 EXCEPT !.val =
                IF rightIsNumber
                THEN Str(SubSeq(object.s, leftIndex + 1, rightIndex))
                ELSE Str(<<object.s[leftIndex + 1]>>)]

\* a read of an absent hash yields the zero MapPair, whose value is nil
mapIndexExpression(e, st) ==
    LET s1 == evaluate(e.object, st)
        object == s1.val
        s2 == evaluate(e.leftIndex, s1)
        key == s2.val
        at == MapSlot(s2.maps[object.n], Hash(key.s))
    IN  IF Panicking(s1) THEN s1
        ELSE IF object.k # "map" THEN [s1 EXCEPT !.sig = GoPanicSig]
        ELSE IF Panicking(s2) THEN s2
        ELSE IF e.rightIndex # NoExpr THEN Throw(s2)
        ELSE IF key.k # "str" THEN Throw(s2)
        ELSE [s2 EXCEPT !.val =
                IF at = {} THEN Nil
                ELSE s2.maps[object.n][CHOOSE i \in at : TRUE].value]

\* the object is evaluated here for its type and once more by the
\* visitor the switch selects
VisitIndexExpression(e, st) ==
    LET s1 == evaluate(e.object, st)
    IN  IF Panicking(s1) THEN s1
        ELSE IF s1.val.k \in {"arr", "str"} THEN arrayIndexExpression(e, s1)
        ELSE IF s1.val.k = "map" THEN mapIndexExpression(e, s1)
        ELSE Throw(s1)

\* the loop of VisitSequenceExpression; the result starts as the nil any
SequenceItems(items, st) ==
    IF items = <<>> THEN st
    ELSE LET s1 == evaluate(Head(items), st)
         IN  IF Panicking(s1) THEN s1 ELSE SequenceItems(Tail(items), s1)

VisitSequenceExpression(e, st) ==
    SequenceItems(e.items, [st EXCEPT !.val = Nil])

\* the loop of VisitMapExpression over the keys from idx on; m is the map
MapExpressionItems(e, idx, m, st) ==
    IF idx > Len(e.keys) THEN [st EXCEPT !.val = m]
    ELSE LET s1 == evaluate(e.keys[idx], st)
             key == s1.val
             s2 == evaluate(e.values[idx], s1)
         IN  IF Panicking(s1) THEN s1
             ELSE IF key.k # "str" THEN Throw(s1)
             ELSE IF Panicking(s2) THEN s2
             ELSE MapExpressionItems(e, idx + 1, m,
                      [s2 EXCEPT !.maps[m.n] = MapStore(@, key.s, s2.val)])

VisitMapExpression(e, st) ==
    MapExpressionItems(e, 1, Map(Len(st.maps) + 1), NewMap(st))

\* array, _ := evaluate(object).(LoxArray): a value of another type
\* leaves the nil slice, of length 0
\* arrayIndexedAssignmentExpression returning the value without the store
\* array[int(index)] = value
arrayIndexedAssignmentExpressionNoStore(e, st) ==
    LET s1 == evaluate(e.left.object, st)
        array == IF s1.val.k = "arr" THEN s1.val ELSE Arr(0, 0, 0)
        s2 == evaluate(e.left.leftIndex, s1)
        index == s2.val
        s3 == evaluate(e.value, s2)
        value == s3.val
    IN  IF Panicking(s1) THEN s1
        ELSE IF Panicking(s2) THEN s2
        ELSE IF index.k # "num" \/ ~isInteger(index) THEN Throw(s2)
        ELSE IF index.n < 0 \/ index.n >= array.len THEN Throw(s2)
        ELSE IF Panicking(s3) THEN s3
        ELSE [s3 EXCEPT !.val = value]

arrayIndexedAssignmentExpression(e, st) ==
    LET s1 == evaluate(e.left.object, st)
        array == IF s1.val.k = "arr" THEN s1.val ELSE Arr(0, 0, 0)
        s2 == evaluate(e.left.leftIndex, s1)
        index == s2.val
        s3 == evaluate(e.value, s2)
        value == s3.val
    IN  IF Panicking(s1) THEN s1
        ELSE IF Panicking(s2) THEN s2
        ELSE IF index.k # "num" \/ ~isInteger(index) THEN Throw(s2)
        ELSE IF index.n < 0 \/ index.n >= array.len THEN Throw(s2)
        ELSE IF Panicking(s3) THEN s3
        ELSE [s3 EXCEPT !.arrs[array.n][array.off + index.n + 1] = value,
                        !.val = value]

\* m, _ := evaluate(object).(LoxMap): a value of another type leaves the
\* nil map, and a store into the nil map is a panic of the Go runtime
mapIndexedAssignmentExpression(e, st) ==
    LET s1 == evaluate(e.left.object, st)
        m == s1.val
        s2 == evaluate(e.left.leftIndex, s1)
        key == s2.val
        s3 == evaluate(e.value, s2)
        value == s3.val
    IN  IF Panicking(s1) THEN s1
        ELSE IF Panicking(s2) THEN s2
        ELSE IF key.k # "str" THEN Throw(s2)
        ELSE IF Panicking(s3) THEN s3
        ELSE IF m.k # "map" THEN [s3 EXCEPT !.sig = GoPanicSig]
        ELSE [s3 EXCEPT !.maps[m.n] = MapStore(@, key.s, value),
                        !.val = value]

VisitIndexedAssignmentExpression(e, st) ==
    LET s1 == evaluate(e.left.object, st)
    IN  IF Panicking(s1) THEN s1
        ELSE IF s1.val.k = "arr" THEN arrayIndexedAssignmentExpression(e, s1)
        ELSE IF s1.val.k = "map" THEN mapIndexedAssignmentExpression(e, s1)
        ELSE Throw(s1)

\* executeBlock once its statements have run: a panic passes the restoring
\* assignment by
BlockEnd(previous, s1) ==
    IF Panicking(s1) THEN s1
    ELSE [s1 EXCEPT !.environment = previous]

executeBlock(statements, environment, st) ==
    BlockEnd(st.environment,
             executeStatements(statements,
                               [st EXCEPT !.environment = environment]))

RECURSIVE defineAll(_, _, _, _)
\* the parameter loop of LoxFunction.Call
defineAll(st, e, names, values) ==
    IF names = <<>> THEN st
    ELSE defineAll(define(st, e, Head(names), Head(values)), e,
                   Tail(names), Tail(values))

\* the deferred handler of LoxFunction.Call, entered with a return signal
ReturnHandler(st, enclosingEnvironment) ==
    [st EXCEPT !.val = st.sig.v, !.sig = NoSig,
               !.environment = enclosingEnvironment]

\* LoxFunction.Call once the body has run: the implicit return of nil, the
\* repanic, or the deferred handler
CallEnd(enclosingEnvironment, s2) ==
    LET h == ReturnHandler(s2, enclosingEnvironment)
    IN  IF ~Panicking(s2)
        THEN Ended(Note([s2 EXCEPT !.val = Nil],
                        Done("call", enclosingEnvironment, s2.environment)),
                   "none")
        ELSE IF s2.sig.k # "return" THEN Ended(s2, s2.sig.k)
        ELSE Ended(Note(h, Caught("call", "return", enclosingEnvironment,
                                  s2.environment, h.environment)),
                   "return")

\* LoxFunction.Call
LoxFunctionCall(f, arguments, st) ==
    CallEnd(st.environment,
            executeBlock(st.fns[f.n].declaration.body, Len(st.envs) + 1,
                defineAll(NewEnclosingEnvironment(st, st.fns[f.n].closure),
                          Len(st.envs) + 1,
                          st.fns[f.n].declaration.params, arguments)))

\* VisitCallExpression refusing only a call with too few arguments
VisitCallExpressionAcceptsMore(e, st) ==
    LET s1 == evaluate(e.callee, st)
        callee == s1.val
        r == evaluateAll(e.arguments, s1, <<>>)
        s2 == r.st
        argValues == r.vals
    IN  IF Panicking(s1) THEN s1
        ELSE IF Panicking(s2) THEN s2
        ELSE IF ~IsCallable(callee)
        THEN ThrowMessage(s2, <<"Can only call functions and classes">>)
        ELSE IF Len(argValues) < Arity(s2, callee)
        THEN ThrowMessage(s2, <<"Expected %d arguments but got %d",
                                Arity(s2, callee), Len(argValues)>>)
        ELSE IF callee.k = "fn" THEN LoxFunctionCall(callee, argValues, s2)
        ELSE CallNative(s2, callee.s[1], argValues)

VisitCallExpression(e, st) ==
    LET s1 == evaluate(e.callee, st)
        callee == s1.val
        r == evaluateAll(e.arguments, s1, <<>>)
        s2 == r.st
        argValues == r.vals
    IN  IF Panicking(s1) THEN s1
        ELSE IF Panicking(s2) THEN s2
        ELSE IF ~IsCallable(callee)
        THEN ThrowMessage(s2, <<"Can only call functions and classes">>)
        ELSE IF Len(argValues) # Arity(s2, callee)
        THEN ThrowMessage(s2, <<"Expected %d arguments but got %d",
                                Arity(s2, callee), Len(argValues)>>)
        ELSE IF callee.k = "fn" THEN LoxFunctionCall(callee, argValues, s2)
        ELSE CallNative(s2, callee.s[1], argValues)

evaluate(e, st) ==
    CASE e.t = "lit" -> [st EXCEPT !.val = e.v]
      [] e.t = "group" -> evaluate(e.expr, st)
      [] e.t = "unary" -> VisitUnaryExpression(e, st)
      [] e.t = "var" -> lookupVariable(st, e.name, e)
      [] e.t = "assign" -> VisitAssignmentExpression(e, st)
      [] e.t = "bin" -> VisitBinaryExpression(e, st)
      [] e.t = "array" -> VisitArrayExpression(e, st)
      [] e.t = "index" -> VisitIndexExpression(e, st)
      [] e.t = "call" -> VisitCallExpression(e, st)
      [] e.t = "lambda" -> NewLoxFunction(st, e.function, st.environment)
      [] e.t = "seq" -> VisitSequenceExpression(e, st)
      [] e.t = "map" -> VisitMapExpression(e, st)
      [] e.t = "indexassign" -> VisitIndexedAssignmentExpression(e, st)

\* a handler of executeLoopBody that recovers from break as well
EndsIterationOrLoop(signal) == signal.k \in {"continue", "break"}

\* what the deferred handler of executeLoopBody recovers from
\* (val != LoxContinue repanics)
EndsIteration(signal) == signal.k = "continue"

\* the handler of executeLoopBody without its evaluation of the increment
ContinueHandlerSkipsIncrement(st, environment, increment) ==
    Note([st EXCEPT !.sig = NoSig, !.environment = environment],
         Caught("iteration", "continue", environment, st.environment,
                environment))

\* the deferred handler of executeLoopBody, entered with a continue signal
ContinueHandler(st, environment, increment) ==
    LET h == [st EXCEPT !.sig = NoSig, !.environment = environment]
        s1 == Note(h, Caught("iteration", "continue", environment,
                             st.environment, h.environment))
    IN  IF increment # NoExpr THEN evaluate(increment, s1) ELSE s1

\* executeLoopBody once the body has run: the increment
IterationIncrement(increment, s1) ==
    IF ~Panicking(s1) /\ increment # NoExpr THEN evaluate(increment, s1)
    ELSE s1

\* executeLoopBody at its end: the return, the repanic, or the handler
IterationEnd(environment, increment, s2) ==
    IF ~Panicking(s2)
    THEN Note(s2, Done("iteration", environment, s2.environment))
    ELSE IF ~EndsIteration(s2.sig) THEN s2
    ELSE ContinueHandler(s2, environment, increment)

executeLoopBody(body, increment, st) ==
    IterationEnd(st.environment, increment,
                 IterationIncrement(increment, execute(body, st)))

\* the for loop of VisitLoopStatement once executeLoopBody has returned
LoopNext(s, b) ==
    IF Panicking(b) THEN b ELSE LoopStatementIterations(s, b)

\* the for loop of VisitLoopStatement once the condition is evaluated
LoopTest(s, c) ==
    IF Panicking(c) THEN c
    ELSE IF ~isTruthy(c.val) THEN c
    ELSE IF c.fuel = 0 THEN [c EXCEPT !.sig = FuelSig]
    ELSE LoopNext(s, executeLoopBody(s.body, s.increment,
                                     [c EXCEPT !.fuel = @ - 1]))

\* the for loop of VisitLoopStatement
LoopStatementIterations(s, st) == LoopTest(s, evaluate(s.condition, st))

\* the handler of VisitLoopStatement without its assignment to environment
BreakHandlerKeepsEnvironment(st, environment) == [st EXCEPT !.sig = NoSig]

\* the deferred handler of VisitLoopStatement and VisitForEachStatement,
\* entered with a break signal
BreakHandler(st, environment) ==
    [st EXCEPT !.sig = NoSig, !.environment = environment]

\* VisitLoopStatement / VisitForEachStatement at its end: the return, the
\* repanic, or the handler
LoopEnd(by, environment, s1) ==
    LET h == BreakHandler(s1, environment)
    IN  IF ~Panicking(s1)
        THEN Note(s1, Done(by, environment, s1.environment))
        ELSE IF s1.sig.k # "break" THEN s1
        ELSE Note(h, Caught(by, "break", environment, s1.environment,
                            h.environment))

VisitLoopStatement(s, st) ==
    LoopEnd("loop", st.environment, LoopStatementIterations(s, st))

\* the for loop of VisitForEachStatement once executeLoopBody has returned;
\* array is the slice header read before the loop, its elements are read
\* from the heap at each step
ForEachNext(s, array, loop_position, b) ==
    IF Panicking(b) THEN b
    ELSE IF loop_position + 1 < array.len
    THEN ForEachIterations(s,
             assign(b, b.environment, s.name,
                    b.arrs[array.n][array.off + loop_position + 2]),
             array, loop_position + 1)
    ELSE b

\* the for loop of VisitForEachStatement
ForEachIterations(s, st, array, loop_position) ==
    ForEachNext(s, array, loop_position, executeLoopBody(s.body, NoExpr, st))

\* VisitForEachStatement once the loop is left: restore environment
ForEachRestore(outerEnvironment, s4) ==
    IF Panicking(s4) THEN s4
    ELSE [s4 EXCEPT !.environment = outerEnvironment]

\* VisitForEachStatement once the array is evaluated
ForEachArray(s, outerEnvironment, s1) ==
    LET array == s1.val
        s2 == NewEnclosingEnvironment(s1, s1.environment)
        s3 == define([s2 EXCEPT !.environment = Len(s2.envs)], Len(s2.envs),
                     s.name, s1.arrs[array.n][array.off + 1])
    IN  IF Panicking(s1) THEN s1
        ELSE IF array.k # "arr" THEN Throw(s1)
        ELSE IF array.len = 0 THEN s1
        ELSE ForEachRestore(outerEnvironment,
                            ForEachIterations(s, s3, array, 0))

\* VisitForEachStatement evaluating s.Array() a second time for the loop
VisitForEachStatementEvaluatesTwice(s, st) ==
    LoopEnd("foreach", st.environment,
            ForEachArray(s, st.environment,
                         evaluate(s.array, evaluate(s.array, st))))

VisitForEachStatement(s, st) ==
    LoopEnd("foreach", st.environment,
            ForEachArray(s, st.environment, evaluate(s.array, st)))

\* VisitVarStatement once the initializer is evaluated
VarDefine(name, s1) ==
    IF Panicking(s1) THEN s1
    ELSE define(s1, s1.environment, name, s1.val)

VisitVarStatement(s, st) ==
    VarDefine(s.name,
              IF s.initializer # NoExpr THEN evaluate(s.initializer, st)
              ELSE [st EXCEPT !.val = Nil])

VisitFunctionStatement(s, st) ==
    LET s1 == NewLoxFunction(st, s, st.environment)
    IN  define(s1, s1.environment, s.name, s1.val)

\* VisitIfStatement once the condition is evaluated
IfBranch(s, s1) ==
    IF Panicking(s1) THEN s1
    ELSE IF isTruthy(s1.val) THEN execute(s.consequence, s1)
    ELSE IF s.alternative # NoStmt THEN execute(s.alternative, s1)
    ELSE s1

VisitIfStatement(s, st) == IfBranch(s, evaluate(s.condition, st))

\* VisitReturnStatement once the value is evaluated: panic(LoxReturn(value))
ReturnRaise(s1) ==
    IF Panicking(s1) THEN s1
    ELSE [s1 EXCEPT !.sig = LoxReturn(s1.val)]

VisitReturnStatement(s, st) ==
    ReturnRaise(IF s.value # NoExpr THEN evaluate(s.value, st)
                ELSE [st EXCEPT !.val = Nil])

VisitBlockStatement(s, st) ==
    executeBlock(s.statements, Len(st.envs) + 1,
                 NewEnclosingEnvironment(st, st.environment))

execute(s, st) ==
    CASE s.t = "expr" -> evaluate(s.expr, st)
      [] s.t = "vardecl" -> VisitVarStatement(s, st)
      [] s.t = "block" -> VisitBlockStatement(s, st)
      [] s.t = "if" -> VisitIfStatement(s, st)
      [] s.t = "loop" -> VisitLoopStatement(s, st)
      [] s.t = "foreach" -> VisitForEachStatement(s, st)
      [] s.t = "fun" -> VisitFunctionStatement(s, st)
      [] s.t = "return" -> VisitReturnStatement(s, st)
      [] s.t = "break" -> [st EXCEPT !.sig = LoxBreak]
      [] s.t = "continue" -> [st EXCEPT !.sig = LoxContinue]

\* the statement loop of executeBlock once a statement has run
BlockNext(rest, s1) ==
    IF Panicking(s1) THEN s1 ELSE executeStatements(rest, s1)

\* the statement loop of executeBlock
executeStatements(statements, st) ==
    IF statements = <<>> THEN st
    ELSE BlockNext(Tail(statements), execute(Head(statements), st))

\* the final expression visited by the ExpressionStatement visitor and then
\* once more for its value
executeFinalExpressionStatementTwice(s, st) ==
    evaluate(s.expr, evaluate(s.expr, st))

\* visits the Expression itself; its value is the val of the state
executeFinalExpressionStatement(s, st) == evaluate(s.expr, st)

\* Interpret returning the value of the final expression statement
InterpretValue(s1) == [st |-> s1, value |-> s1.val, ok |-> TRUE]

\* the statement loop of Interpret once a statement has run
InterpretNext(statements, idx, s1) ==
    IF Panicking(s1) THEN [st |-> s1, value |-> Nil, ok |-> FALSE]
    ELSE InterpretStatements(statements, idx + 1, s1)

\* the statement loop of Interpret
InterpretStatements(statements, idx, st) ==
    IF idx > Len(statements) THEN [st |-> st, value |-> Nil, ok |-> FALSE]
    ELSE IF idx = Len(statements) /\ statements[idx].t = "expr"
    THEN InterpretValue(executeFinalExpressionStatement(statements[idx], st))
    ELSE InterpretNext(statements, idx, execute(statements[idx], st))

\* the deferred handler of Interpret, which recovers from every panic;
\* ended tells which panic, if any, it recovered from
InterpretEnd(r) ==
    IF Panicking(r.st)
    THEN [st |-> [r.st EXCEPT !.sig = NoSig], value |-> Nil,
          ok |-> FALSE, ended |-> r.st.sig.k]
    ELSE [st |-> r.st, value |-> r.value, ok |-> r.ok, ended |-> "none"]

Interpret(statements, st) ==
    InterpretEnd(InterpretStatements(statements, 1,
                                     [st EXCEPT !.fuel = MaxFuel]))

-----------------------------------------------------------------------------
(* resolver.Resolver.  The threaded state r is the Resolver object; locals *)
(* is the interpreter's map the resolver writes through                    *)
(* Interpreter.Resolve, and err tells that a resolution error was raised   *)
(* (a panic that Resolve recovers from, so the pass stops there).          *)

NewResolver(locals) ==
    [scopes |-> <<>>, currentFunction |-> "NOT_FUNCTION",
     currentClass |-> "NOT_CLASS", currentMethod |-> "NOT_METHOD",
     loop |-> FALSE, locals |-> locals, err |-> FALSE]

\* panic(r.errors.ResolutionError(token, message))
Fail(r) == [r EXCEPT !.err = TRUE]

beginScope(r) == [r EXCEPT !.scopes = Append(@, <<>>)]

endScope(r) == [r EXCEPT !.scopes = SubSeq(@, 1, Len(@) - 1)]

peekScope(r) == r.scopes[Len(r.scopes)]

resolveLocal(r, expression, name) ==
    LET hits == {i \in 1..Len(r.scopes) : name \in DOMAIN r.scopes[i]}
        i == CHOOSE h \in hits : \A g \in hits : g <= h
    IN  IF hits = {} THEN r
        ELSE [r EXCEPT !.locals = (expression.id :> Len(r.scopes) - i) @@ @]

\* declare without the check for a name already in the scope
declareAgain(r, name) ==
    IF Len(r.scopes) = 0 THEN r
    ELSE [r EXCEPT !.scopes[Len(r.scopes)] = (name :> FALSE) @@ @]

declare(r, name) ==
    IF Len(r.scopes) = 0 THEN r
    ELSE IF name \in DOMAIN peekScope(r) THEN Fail(r)
    ELSE [r EXCEPT !.scopes[Len(r.scopes)] = (name :> FALSE) @@ @]

resolverDefine(r, name) ==
    IF Len(r.scopes) = 0 THEN r
    ELSE [r EXCEPT !.scopes[Len(r.scopes)] = (name :> TRUE) @@ @]

RECURSIVE resolveStatement(_, _)
RECURSIVE resolveExpression(_, _)
RECURSIVE resolveStatements(_, _)
RECURSIVE resolveExpressions(_, _)
RECURSIVE declareParams(_, _)

resolveStatements(statements, r) ==
    IF statements = <<>> \/ r.err THEN r
    ELSE resolveStatements(Tail(statements),
                           resolveStatement(Head(statements), r))

resolveExpressions(es, r) ==
    IF es = <<>> \/ r.err THEN r
    ELSE resolveExpressions(Tail(es), resolveExpression(Head(es), r))

\* the parameter loop of resolveFunction
declareParams(params, r) ==
    IF params = <<>> \/ r.err THEN r
    ELSE LET r1 == declare(r, Head(params))
         IN  IF r1.err THEN r1
             ELSE declareParams(Tail(params), resolverDefine(r1, Head(params)))

resolveFunction(r, function, functionType) ==
    LET enclosingFunction == r.currentFunction
        r1 == beginScope([r EXCEPT !.currentFunction = functionType])
        r2 == declareParams(function.params, r1)
        r3 == resolveStatements(function.body, r2)
    IN  IF function.kind = "STATIC_METHOD" /\ r.currentClass = "NOT_CLASS"
        THEN Fail(r)
        ELSE IF r3.err THEN r3
        ELSE [endScope(r3) EXCEPT !.currentFunction = enclosingFunction]

ResolveBlockStatement(s, r) ==
    LET r1 == resolveStatements(s.statements, beginScope(r))
    IN  IF r1.err THEN r1 ELSE endScope(r1)

ResolveFunctionStatement(s, r) ==
    LET r1 == declare(r, s.name)
    IN  IF r1.err THEN r1
        ELSE resolveFunction(resolverDefine(r1, s.name), s, "FUNCTION")

\* the scope of a class body: its only entry is the given name
classScope(r, name) ==
    [beginScope(r) EXCEPT !.scopes[Len(r.scopes) + 1] = name :> TRUE]

RECURSIVE resolveMethods(_, _, _)
\* the loop of VisitClassStatement once resolveFunction has returned
MethodResolved(s, methods, r1) ==
    IF r1.err THEN r1
    ELSE resolveMethods(s, Tail(methods),
                        IF Head(methods).name = "init" THEN r1
                        ELSE [r1 EXCEPT !.currentMethod = "NOT_METHOD"])

\* the loop of VisitClassStatement over the methods still to visit
resolveMethods(s, methods, r) ==
    IF methods = <<>> THEN r
    ELSE IF Head(methods).name = "init"
    THEN IF Head(methods).kind # "NORMAL_METHOD" THEN Fail(r)
         ELSE MethodResolved(s, methods,
                  resolveFunction(r, Head(methods), "INITIALIZER"))
    ELSE MethodResolved(s, methods,
             resolveFunction([r EXCEPT !.currentMethod = Head(methods).kind],
                             Head(methods), "METHOD"))

\* VisitClassStatement once the methods are resolved
ClassEnd(s, enclosingClass, r3) ==
    IF r3.err THEN r3
    ELSE [(IF s.superclass # NoExpr THEN endScope(endScope(r3))
           ELSE endScope(r3)) EXCEPT !.currentClass = enclosingClass]

\* VisitClassStatement once the superclass is resolved
SubclassBody(s, enclosingClass, r2) ==
    IF r2.err THEN r2
    ELSE ClassEnd(s, enclosingClass,
             resolveMethods(s, s.methods,
                 classScope(classScope(r2, "super"), "this")))

\* VisitClassStatement once the name is declared
ClassBody(s, enclosingClass, r1) ==
    IF r1.err THEN r1
    ELSE IF s.superclass = NoExpr
    THEN ClassEnd(s, enclosingClass,
             resolveMethods(s, s.methods,
                 classScope(resolverDefine(r1, s.name), "this")))
    ELSE IF s.name = s.superclass.name THEN Fail(r1)
    ELSE SubclassBody(s, enclosingClass,
             resolveExpression(s.superclass,
                 [resolverDefine(r1, s.name)
                     EXCEPT !.currentClass = "SUBCLASS"]))

ResolveClassStatement(s, r) ==
    ClassBody(s, r.currentClass,
              declare([r EXCEPT !.currentClass = "CLASS"], s.name))

ResolveIfStatement(s, r) ==
    LET r1 == resolveExpression(s.condition, r)
        r2 == resolveStatement(s.consequence, r1)
    IN  IF r1.err THEN r1
        ELSE IF r2.err \/ s.alternative = NoStmt THEN r2
        ELSE resolveStatement(s.alternative, r2)

ResolveReturnStatement(s, r) ==
    IF r.currentFunction = "NOT_FUNCTION" THEN Fail(r)
    ELSE IF s.value = NoExpr THEN r
    ELSE IF r.currentFunction = "INITIALIZER" THEN Fail(r)
    ELSE IF r.currentMethod = "SETTER_METHOD" THEN Fail(r)
    ELSE resolveExpression(s.value, r)

ResolveBreakStatement(s, r) == IF r.loop = FALSE THEN Fail(r) ELSE r

ResolveContinueStatement(s, r) == IF r.loop = FALSE THEN Fail(r) ELSE r

ResolveVarStatement(s, r) ==
    LET r1 == declare(r, s.name)
        r2 == IF s.initializer # NoExpr
              THEN resolveExpression(s.initializer, r1) ELSE r1
    IN  IF r1.err THEN r1
        ELSE IF r2.err THEN r2
        ELSE resolverDefine(r2, s.name)

ResolveLoopStatement(s, r) ==
    LET r1 == resolveExpression(s.condition, r)
        r2 == resolveStatement(s.body, [r1 EXCEPT !.loop = TRUE])
        r3 == IF s.increment # NoExpr
              THEN resolveExpression(s.increment, r2) ELSE r2
    IN  IF r1.err THEN r1
        ELSE IF r2.err THEN r2
        ELSE IF r3.err THEN r3
        ELSE [r3 EXCEPT !.loop = FALSE]

ResolveForEachStatement(s, r) ==
    LET r1 == resolveExpression(s.array, r)
        r2 == declare(beginScope(r1), s.name)
        r3 == resolveStatement(s.body,
                [resolverDefine(r2, s.name) EXCEPT !.loop = TRUE])
    IN  IF r1.err THEN r1
        ELSE IF r2.err THEN r2
        ELSE IF r3.err THEN r3
        ELSE endScope([r3 EXCEPT !.loop = FALSE])

ResolveVariableExpression(e, r) ==
    IF /\ Len(r.scopes) > 0
       /\ e.name \in DOMAIN peekScope(r)
       /\ peekScope(r)[e.name] = FALSE
    THEN Fail(r)
    ELSE resolveLocal(r, e, e.name)

ResolveAssignmentExpression(e, r) ==
    LET r1 == resolveExpression(e.value, r)
    IN  IF r1.err THEN r1 ELSE resolveLocal(r1, e, e.name)

resolveStatement(s, r) ==
    CASE s.t = "expr" -> resolveExpression(s.expr, r)
      [] s.t = "vardecl" -> ResolveVarStatement(s, r)
      [] s.t = "block" -> ResolveBlockStatement(s, r)
      [] s.t = "if" -> ResolveIfStatement(s, r)
      [] s.t = "loop" -> ResolveLoopStatement(s, r)
      [] s.t = "foreach" -> ResolveForEachStatement(s, r)
      [] s.t = "fun" -> ResolveFunctionStatement(s, r)
      [] s.t = "class" -> ResolveClassStatement(s, r)
      [] s.t = "return" -> ResolveReturnStatement(s, r)
      [] s.t = "break" -> ResolveBreakStatement(s, r)
      [] s.t = "continue" -> ResolveContinueStatement(s, r)

resolveExpression(e, r) ==
    CASE e.t = "lit" -> r
      [] e.t = "group" -> resolveExpression(e.expr, r)
      [] e.t = "unary" -> resolveExpression(e.expr, r)
      [] e.t = "var" -> ResolveVariableExpression(e, r)
      [] e.t = "assign" -> ResolveAssignmentExpression(e, r)
      [] e.t = "bin" -> resolveExpressions(<<e.left, e.right>>, r)
      [] e.t = "array" -> resolveExpressions(e.items, r)
      [] e.t = "index" ->
            resolveExpressions(
                IF e.rightIndex # NoExpr
                THEN <<e.object, e.leftIndex, e.rightIndex>>
                ELSE <<e.object, e.leftIndex>>, r)
      [] e.t = "call" -> resolveExpressions(<<e.callee>> \o e.arguments, r)
      [] e.t = "lambda" -> resolveFunction(r, e.function, "FUNCTION")
      [] e.t = "seq" -> resolveExpressions(e.items, r)
      [] e.t = "map" ->
            resolveExpressions(
                [i \in 1..(2 * Len(e.keys)) |->
                    IF i % 2 = 1 THEN e.keys[(i + 1) \div 2]
                    ELSE e.values[i \div 2]], r)
      [] e.t = "indexassign" -> resolveExpressions(<<e.left, e.value>>, r)

\* Resolver.Resolve on a fresh Resolver: the locals recorded, and whether a
\* resolution error was reported
Resolve(statements, locals) ==
    LET r == resolveStatements(statements, NewResolver(locals))
    IN  [locals |-> r.locals, err |-> r.err]

-----------------------------------------------------------------------------
(* parser.Parser.  A token is its type, its lexeme, its literal and its    *)
(* line; the parser is the token slice, the index current, and, in the     *)
(* model, whether a ParserError panic is unwinding, the messages reported  *)
(* so far and the node the last parsing function returned.  The token      *)
(* types of the model are those of TokenTypes: with no operator,           *)
(* parenthesis, bracket or dot among them, expression is assignment, and   *)
(* or, and, equality, comparison, term, factor, unary and call_index each  *)
(* return what primary returns.                                            *)

TokenTypes ==
    {"IDENTIFIER", "NUMBER", "STRING", "NIL", "TRUE", "FALSE", "EQUAL",
     "SEMICOLON", "NEW_LINE", "LEFT_BRACE", "RIGHT_BRACE", "RIGHT_PAREN",
     "COLON", "COMMA", "VAR", "RETURN", "BREAK", "CONTINUE", "EOF"}

Token(type, lexeme, literal, line) ==
    [type |-> type, lexeme |-> lexeme, literal |-> literal, line |-> line]

NewParser(tokens) ==
    [tokens |-> tokens, current |-> 0, panicking |-> FALSE,
     messages |-> <<>>, node |-> NoStmt, heads |-> <<>>, stuck |-> FALSE]

\* an iteration of the loop of Parse or of block begins: heads observes
\* where the cursor is
Iteration(p) == [p EXCEPT !.heads = Append(@, p.current)]

\* the loop has come round with the cursor where the iteration found it and
\* would do so for ever; the model stops it here
Stuck(p) == [p EXCEPT !.stuck = TRUE]

peek(p) == p.tokens[p.current + 1]

previous(p) == p.tokens[p.current]

isAtEnd(p) == peek(p).type = "EOF"

check(p, tokenType) == ~isAtEnd(p) /\ peek(p).type = tokenType

checkAhead(p, tokenType, lookahead) ==
    /\ p.current + lookahead < Len(p.tokens)
    /\ p.tokens[p.current + lookahead + 1].type = tokenType

advance(p) == IF ~isAtEnd(p) THEN [p EXCEPT !.current = @ + 1] ELSE p

\* what match returns
matches(p, tokenTypes) == \E t \in tokenTypes : check(p, t)

\* the parser once match has returned
match(p, tokenTypes) == IF matches(p, tokenTypes) THEN advance(p) ELSE p

\* panic(lox_error.ParserError(token, message))
ParserPanic(p, message) ==
    [p EXCEPT !.panicking = TRUE, !.messages = Append(@, message)]

\* a parsing function returning node
Returns(p, node) == IF p.panicking THEN p ELSE [p EXCEPT !.node = node]

consume(p, tokenType, message) ==
    IF check(p, tokenType) THEN advance(p) ELSE ParserPanic(p, message)

RECURSIVE eatNewLines(_)
eatNewLines(p) ==
    IF matches(p, {"NEW_LINE"}) THEN eatNewLines(advance(p)) ELSE p

endStatement(p) ==
    IF p.panicking THEN p
    ELSE IF check(p, "RIGHT_BRACE") THEN p
    ELSE IF ~matches(p, {"SEMICOLON", "NEW_LINE"}) /\ ~isAtEnd(p)
    THEN ParserPanic(p, "Improperly terminated statement")
    ELSE eatNewLines(match(p, {"SEMICOLON", "NEW_LINE"}))

\* the loop of synchronize
RECURSIVE synchronizeLoop(_)
synchronizeLoop(p) ==
    IF isAtEnd(p) THEN p
    ELSE IF previous(p).type = "SEMICOLON" THEN p
    ELSE IF peek(p).type \in {"CLASS", "FUN", "VAR", "FOR", "IF", "WHILE",
                              "RETURN"}
    THEN p
    ELSE synchronizeLoop(advance(p))

synchronize(p) == synchronizeLoop(advance(p))

RECURSIVE expression(_)
RECURSIVE declaration(_)

RECURSIVE MapLiteralPairs(_, _, _)
\* the loop of primary over the pairs of a map literal: after a pair
MapLiteralNext(keys, values, p3) ==
    IF matches(p3, {"COMMA"}) THEN MapLiteralPairs(advance(p3), keys, values)
    ELSE Returns(consume(p3, "RIGHT_BRACE", "Expect '}' after map literal"),
                 MapExpression(keys, values))

\* after the value of a pair
MapLiteralValue(keys, values, key, p2) ==
    IF p2.panicking THEN p2
    ELSE MapLiteralNext(Append(keys, key), Append(values, p2.node),
                        eatNewLines(p2))

\* after the colon of a pair
MapLiteralColon(keys, values, key, p2) ==
    IF p2.panicking THEN p2
    ELSE MapLiteralValue(keys, values, key, expression(p2))

\* after the key of a pair
MapLiteralKey(keys, values, p1) ==
    IF p1.panicking THEN p1
    ELSE MapLiteralColon(keys, values, p1.node,
             consume(p1, "COLON",
                     "Expect ':' between key and value in map literal"))

MapLiteralPairs(p, keys, values) ==
    MapLiteralKey(keys, values, expression(eatNewLines(p)))

primary(p) ==
    IF matches(p, {"FALSE"})
    THEN Returns(advance(p), LiteralExpression(Bool(FALSE)))
    ELSE IF matches(p, {"TRUE"})
    THEN Returns(advance(p), LiteralExpression(Bool(TRUE)))
    ELSE IF matches(p, {"NIL"})
    THEN Returns(advance(p), LiteralExpression(Nil))
    ELSE IF matches(p, {"NUMBER", "STRING"})
    THEN Returns(advance(p), LiteralExpression(peek(p).literal))
    ELSE IF matches(p, {"IDENTIFIER"})
    THEN Returns(advance(p),
                 VariableExpression(<<peek(p).line, p.current>>,
                                    peek(p).lexeme))
    ELSE IF matches(p, {"LEFT_BRACE"})
    THEN LET p1 == eatNewLines(advance(p))
         IN  IF matches(p1, {"RIGHT_BRACE"})
             THEN Returns(advance(p1), MapExpression(<<>>, <<>>))
             ELSE MapLiteralPairs(p1, <<>>, <<>>)
    ELSE ParserPanic(p, "Expect expression.")

\* assignment once the value is parsed; id is the identity of the node
AssignmentTarget(expr, id, p2) ==
    IF p2.panicking THEN p2
    ELSE IF expr.t = "var"
    THEN Returns(p2, AssignmentExpression(id, expr.name, p2.node))
    ELSE ParserPanic(p2, "Invalid assignment target")

RECURSIVE assignment(_)
\* assignment once or has returned
AssignmentValue(p1) ==
    IF p1.panicking THEN p1
    ELSE IF matches(p1, {"EQUAL"})
    THEN AssignmentTarget(p1.node, <<peek(p1).line, p1.current>>,
                          assignment(advance(p1)))
    ELSE p1

assignment(p) == AssignmentValue(primary(p))

expression(p) == assignment(p)

expressionStatement(p) ==
    LET p1 == expression(p)
    IN  Returns(endStatement(p1), ExpressionStatement(p1.node))

varDeclaration(p) ==
    LET p1 == consume(p, "IDENTIFIER", "Expect variable name.")
        name == peek(p).lexeme
        p2 == IF p1.panicking THEN p1
              ELSE IF matches(p1, {"EQUAL"}) THEN expression(advance(p1))
              ELSE [p1 EXCEPT !.node = NoExpr]
    IN  Returns(endStatement(p2), VarStatement(name, p2.node))

returnStatement(p) ==
    LET p1 == IF ~check(p, "SEMICOLON") /\ ~check(p, "NEW_LINE")
              THEN expression(p)
              ELSE [p EXCEPT !.node = NoExpr]
    IN  Returns(endStatement(p1), ReturnStatement(p1.node))

breakStatement(p) == Returns(endStatement(p), BreakStatement)

continueStatement(p) == Returns(endStatement(p), ContinueStatement)

\* the loop of block once a declaration is parsed; the iteration began
\* with the cursor at before
RECURSIVE block(_, _)
BlockAppend(statements, before, p1) ==
    IF p1.current = before THEN Stuck(p1)
    ELSE block(p1, Append(statements, p1.node))

\* block with the statements parsed so far
block(p, statements) ==
    IF ~check(p, "RIGHT_BRACE") /\ ~isAtEnd(p)
    THEN IF matches(p, {"NEW_LINE"})
         THEN block(advance(Iteration(p)), statements)
         ELSE BlockAppend(statements, p.current, declaration(Iteration(p)))
    ELSE Returns(consume(p, "RIGHT_BRACE", "Expect '}' after block"),
                 BlockStatement(statements))

statement(p) ==
    IF matches(p, {"RETURN"}) THEN returnStatement(advance(p))
    ELSE IF matches(p, {"BREAK"}) THEN breakStatement(advance(p))
    ELSE IF matches(p, {"CONTINUE"}) THEN continueStatement(advance(p))
    ELSE IF check(p, "LEFT_BRACE")
    THEN IF \/ checkAhead(p, "RIGHT_BRACE", 1)
            \/ checkAhead(p, "STRING", 1) /\ checkAhead(p, "COLON", 2)
         THEN expressionStatement(p)
         ELSE block(advance(p), <<>>)
    ELSE expressionStatement(p)

\* the deferred function of declaration, recovering without synchronize
SynchronizedNowhere(p1) ==
    IF p1.panicking
    THEN [p1 EXCEPT !.panicking = FALSE, !.node = NoStmt]
    ELSE p1

\* the deferred function of declaration
Synchronized(p1) ==
    IF p1.panicking
    THEN [synchronize(p1) EXCEPT !.panicking = FALSE, !.node = NoStmt]
    ELSE p1

declaration(p) ==
    Synchronized(IF matches(p, {"VAR"}) THEN varDeclaration(advance(p))
                 ELSE statement(p))

RECURSIVE ParseLoop(_, _)
\* the loop of Parse once a declaration is parsed; the iteration began
\* with the cursor at before
ParseAppend(statements, before, p1) ==
    IF p1.current = before
    THEN Stuck([p1 EXCEPT !.node = Append(statements, p1.node)])
    ELSE ParseLoop(p1, Append(statements, p1.node))

\* the loop of Parse with the statements parsed so far
ParseLoop(p, statements) ==
    IF isAtEnd(p) THEN [p EXCEPT !.node = statements]
    ELSE IF matches(p, {"NEW_LINE"})
    THEN ParseLoop(advance(Iteration(p)), statements)
    ELSE ParseAppend(statements, p.current, declaration(Iteration(p)))

\* Parser.Parse: node is the slice of statements it returns
ParserParse(p) == ParseLoop(p, <<>>)

\* what the parser makes of an input that is held as its statements
Parsed(src) ==
    [tokens |-> <<>>, current |-> 0, panicking |-> FALSE,
     messages |-> IF src.parseError THEN <<"">> ELSE <<>>,
     node |-> src.statements, heads |-> <<>>, stuck |-> FALSE]

-----------------------------------------------------------------------------
(* The inputs.  An input is a source text, held as what the scanner and    *)
(* the parser make of it: whether scanning or parsing reports an error,    *)
(* and the statements Parse returns.  kind and args name the text within   *)
(* its family.  u is the number of the input within the session; the       *)
(* identity of a node is the pair of u and its position, so the nodes of   *)
(* two inputs are never the same object.                                   *)

Args(n, c, m, d, op) == [n |-> n, c |-> c, m |-> m, d |-> d, op |-> op]

Source(kind, args, statements) ==
    [kind |-> kind, args |-> args, scanError |-> FALSE,
     parseError |-> FALSE, statements |-> statements]

\* a text the scanner reports an error for, such as `@`
Unscannable(kind) ==
    [kind |-> kind, args |-> Args(0, 0, 0, 0, ""), scanError |-> TRUE,
     parseError |-> FALSE, statements |-> <<>>]

\* a text the parser reports an error for, such as `var;`
Unparsable(kind) ==
    [kind |-> kind, args |-> Args(0, 0, 0, 0, ""), scanError |-> FALSE,
     parseError |-> TRUE, statements |-> <<>>]

Var(u, k, name) == VariableExpression(<<u, k>>, name)
Assign(u, k, name, value) == AssignmentExpression(<<u, k>>, name, value)
NumLit(x) == LiteralExpression(Num(x))
StrLit(cs) == LiteralExpression(Str(cs))
\* a number as written: the parser reads -1 as the negation of 1
IntLit(x) == IF x < 0 THEN UnaryExpression("-", NumLit(-x)) ELSE NumLit(x)
Call(u, k, name, arguments) == CallExpression(Var(u, k, name), arguments)
Show(u, k, e) == ExpressionStatement(Call(u, k, "print", <<e>>))
Fun(name, params, body) == FunctionStatement(name, params, body, "NOT_METHOD")

RECURSIVE Nest(_, _)
\* the statement s inside d blocks: { { s } }
Nest(s, d) == IF d = 0 THEN s ELSE BlockStatement(<<Nest(s, d - 1)>>)

\* what the logging functions of the loop programs print
CondMark == Str(<<"c">>)
IncMark == Str(<<"i">>)

\* fun test(x) { print("c"); return x < K; }   (K = -1: return true)
TestFunction(u, k, K) ==
    Fun("test", <<"x">>,
        << Show(u, k, LiteralExpression(CondMark)),
           ReturnStatement(
               IF K < 0 THEN LiteralExpression(Bool(TRUE))
               ELSE BinaryExpression(Var(u, k + 1, "x"), "<", NumLit(K))) >>)

\* fun step(x) { print("i"); return x + 1; }
StepFunction(u, k) ==
    Fun("step", <<"x">>,
        << Show(u, k, LiteralExpression(IncMark)),
           ReturnStatement(
               BinaryExpression(Var(u, k + 1, "x"), "+", NumLit(1))) >>)

\* for (i = 0; test(i); i = step(i)) body
\* as forStatement desugars it: { i = 0; loop }
ForLoop(u, k, body) ==
    BlockStatement(
        << ExpressionStatement(Assign(u, k, "i", NumLit(0))),
           LoopStatement(
               Call(u, k + 1, "test", <<Var(u, k + 2, "i")>>),
               body,
               Assign(u, k + 3, "i",
                      Call(u, k + 4, "step", <<Var(u, k + 5, "i")>>))) >>)

\* var i = 0;
\* fun test(x) { print("c"); return x < K; }
\* fun step(x) { print("i"); return x + 1; }
\* for (i = 0; test(i); i = step(i)) { if (i op c) {{ continue; }} print(i); }
\* i
ContinueProgram(u, K, op, c, d) ==
    Source("continue", Args(K, c, 0, d, op),
        << VarStatement("i", NumLit(0)),
           TestFunction(u, 1, K),
           StepFunction(u, 3),
           ForLoop(u, 5,
               BlockStatement(
                   << IfStatement(
                          BinaryExpression(Var(u, 11, "i"), op, NumLit(c)),
                          Nest(ContinueStatement, d), NoStmt),
                      Show(u, 12, Var(u, 13, "i")) >>)),
           ExpressionStatement(Var(u, 14, "i")) >>)

\* var i = 0;
\* for (i = 0;; i = i + 1) { if (i == N) {{ break; }} }
\* i
PlainBreakProgram(u, N, d) ==
    Source("break", Args(N, 0, 0, d, ""),
        << VarStatement("i", NumLit(0)),
           BlockStatement(
               << ExpressionStatement(Assign(u, 1, "i", NumLit(0))),
                  LoopStatement(
                      LiteralExpression(Bool(TRUE)),
                      BlockStatement(
                          << IfStatement(
                                 BinaryExpression(Var(u, 2, "i"), "==",
                                                  NumLit(N)),
                                 Nest(BreakStatement, d), NoStmt) >>),
                      Assign(u, 3, "i",
                             BinaryExpression(Var(u, 4, "i"), "+",
                                              NumLit(1)))) >>),
           ExpressionStatement(Var(u, 5, "i")) >>)

\* var i = 0; var j = 0;
\* fun test(x) { print("c"); return true; }
\* fun step(x) { print("i"); return x + 1; }
\* for (j = 0; j < M; j = j + 1) {
\*   for (i = 0; test(i); i = step(i)) { if (i == N) {{ break; }} }
\*   print(i);
\* }
\* i
NestedBreakProgram(u, N, d, M) ==
    Source("breaks", Args(N, 0, M, d, ""),
        << VarStatement("i", NumLit(0)),
           VarStatement("j", NumLit(0)),
           TestFunction(u, 1, -1),
           StepFunction(u, 3),
           BlockStatement(
               << ExpressionStatement(Assign(u, 15, "j", NumLit(0))),
                  LoopStatement(
                      BinaryExpression(Var(u, 16, "j"), "<", NumLit(M)),
                      BlockStatement(
                          << ForLoop(u, 5,
                                 BlockStatement(
                                     << IfStatement(
                                            BinaryExpression(
                                                Var(u, 11, "i"), "==",
                                                NumLit(N)),
                                            Nest(BreakStatement, d),
                                            NoStmt) >>)),
                             Show(u, 12, Var(u, 13, "i")) >>),
                      Assign(u, 17, "j",
                             BinaryExpression(Var(u, 18, "j"), "+",
                                              NumLit(1)))) >>),
           ExpressionStatement(Var(u, 14, "i")) >>)

\* fun f(x) { {{ return x + 1; }} }                        (op "block")
\* fun f(x) { while (true) { {{ return x + 1; }} } }        (op "loop")
\* fun f(x) { for (var y of [x]) { {{ return y + 1; }} } }  (op "foreach")
\* f(1)
ReturnProgram(u, d, op) ==
    LET ret(name) ==
            Nest(ReturnStatement(
                     BinaryExpression(Var(u, 1, name), "+", NumLit(1))), d)
    IN  Source("return", Args(0, 0, 0, d, op),
            << Fun("f", <<"x">>,
                   CASE op = "block" -> <<ret("x")>>
                     [] op = "loop" ->
                        << LoopStatement(LiteralExpression(Bool(TRUE)),
                                         BlockStatement(<<ret("x")>>),
                                         NoExpr) >>
                     [] op = "foreach" ->
                        << ForEachStatement("y",
                               ArrayExpression(<<Var(u, 2, "x")>>),
                               BlockStatement(<<ret("y")>>)) >>),
               ExpressionStatement(Call(u, 3, "f", <<NumLit(1)>>)) >>)

\* for (var x of [0, .., n-1]) { if (x == c) {{ break; }} print(x); }
\* (op "break"; op "continue" has continue in the place of break)
ForEachProgram(u, n, c, d, op) ==
    Source("foreach", Args(n, c, 0, d, op),
        << ForEachStatement("x",
               ArrayExpression([i \in 1..n |-> NumLit(i - 1)]),
               BlockStatement(
                   << IfStatement(
                          BinaryExpression(Var(u, 1, "x"), "==", NumLit(c)),
                          Nest(IF op = "break" THEN BreakStatement
                               ELSE ContinueStatement, d),
                          NoStmt),
                      Show(u, 2, Var(u, 3, "x")) >>)) >>)

\* programs that read and write the variables of enclosing scopes
\*   "closure"  { var a = 1; fun f() { return a; } print(f()); }
\*   "counter"  { var a = 1; fun f() { a = a + 1; } f(); print(a); }
\*   "shadow"   var a = 1; { var a = 2; { print(a); } }
\*   "self"     { var a = (() => a)(); print(a); }
\*   "selfset"  { var a = (() => a = 1)(); print(a); }
ScopeProgram(u, op) ==
    Source("scope", Args(0, 0, 0, 0, op),
        CASE op = "closure" ->
               << BlockStatement(
                    << VarStatement("a", NumLit(1)),
                       Fun("f", <<>>, <<ReturnStatement(Var(u, 1, "a"))>>),
                       Show(u, 2, Call(u, 3, "f", <<>>)) >>) >>
          [] op = "counter" ->
               << BlockStatement(
                    << VarStatement("a", NumLit(1)),
                       Fun("f", <<>>,
                           << ExpressionStatement(
                                Assign(u, 1, "a",
                                    BinaryExpression(Var(u, 2, "a"), "+",
                                                     NumLit(1)))) >>),
                       ExpressionStatement(Call(u, 3, "f", <<>>)),
                       Show(u, 4, Var(u, 5, "a")) >>) >>
          [] op = "shadow" ->
               << VarStatement("a", NumLit(1)),
                  BlockStatement(
                    << VarStatement("a", NumLit(2)),
                       BlockStatement(<<Show(u, 1, Var(u, 2, "a"))>>) >>) >>
          [] op = "self" ->
               << BlockStatement(
                    << VarStatement("a",
                         CallExpression(
                           GroupingExpression(
                             LambdaExpression(<<>>,
                               <<ReturnStatement(Var(u, 1, "a"))>>)),
                           <<>>)),
                       Show(u, 2, Var(u, 3, "a")) >>) >>
          [] op = "selfset" ->
               << BlockStatement(
                    << VarStatement("a",
                         CallExpression(
                           GroupingExpression(
                             LambdaExpression(<<>>,
                               <<ReturnStatement(
                                   Assign(u, 1, "a", NumLit(1)))>>)),
                           <<>>)),
                       Show(u, 2, Var(u, 3, "a")) >>) >>)

ScopeShapes == {"closure", "counter", "shadow", "self", "selfset"}

Letters == <<"a", "b", "c", "d", "e", "f", "g", "h">>

\* [0, .., n-1][lo:hi]   (op "array")
\* "ab.."[lo:hi]         (op "string", a string of n letters)
SliceProgram(u, op, n, lo, hi) ==
    Source("slice", Args(n, lo, hi, 0, op),
        << ExpressionStatement(
             IndexExpression(
                 IF op = "array"
                 THEN ArrayExpression([i \in 1..n |-> NumLit(i - 1)])
                 ELSE StrLit(SubSeq(Letters, 1, n)),
                 IntLit(lo), IntLit(hi))) >>)

\* the operands of the equality programs, as written
Operands ==
    << LiteralExpression(Nil),
       LiteralExpression(Bool(TRUE)),
       LiteralExpression(Bool(FALSE)),
       NumLit(0),
       NumLit(1),
       StrLit(<<>>),
       StrLit(<<"a">>),
       ArrayExpression(<<>>),
       ArrayExpression(<<NumLit(1)>>),
       LambdaExpression(<<>>, <<ReturnStatement(NumLit(1))>>),
       MapExpression(<<>>, <<>>) >>

\* programs whose functions outlive or share what they capture
\*   "adder"    var adder = a => b => a + b
\*              var p = adder(5); var q = adder(1); [p(6), q(6), p(6)]
\*   "later"    { var a = 1; fun f() { return a; }
\*                a = 2; print(f()); a = 3; print(f()); }
\*   "inside"   { var a = 1; fun f() { a = a + 1; }
\*                f(); print(a); f(); print(a); }
\*   "counters" fun make() { var n = 0; return () => n = n + 1; }
\*              var c = make(); var d = make(); [c(), c(), d(), c()]
CaptureShapes == {"adder", "later", "inside", "counters"}

CaptureProgram(u, op) ==
    Source("capture", Args(0, 0, 0, 0, op),
        CASE op = "adder" ->
               << VarStatement("adder",
                    LambdaExpression(<<"a">>,
                      << ReturnStatement(
                           LambdaExpression(<<"b">>,
                             << ReturnStatement(
                                  BinaryExpression(Var(u, 1, "a"), "+",
                                                   Var(u, 2, "b"))) >>)) >>)),
                  VarStatement("p", Call(u, 3, "adder", <<NumLit(5)>>)),
                  VarStatement("q", Call(u, 4, "adder", <<NumLit(1)>>)),
                  ExpressionStatement(ArrayExpression(
                      << Call(u, 5, "p", <<NumLit(6)>>),
                         Call(u, 6, "q", <<NumLit(6)>>),
                         Call(u, 7, "p", <<NumLit(6)>>) >>)) >>
          [] op = "later" ->
               << BlockStatement(
                    << VarStatement("a", NumLit(1)),
                       Fun("f", <<>>, <<ReturnStatement(Var(u, 1, "a"))>>),
                       ExpressionStatement(Assign(u, 2, "a", NumLit(2))),
                       Show(u, 3, Call(u, 4, "f", <<>>)),
                       ExpressionStatement(Assign(u, 5, "a", NumLit(3))),
                       Show(u, 6, Call(u, 7, "f", <<>>)) >>) >>
          [] op = "inside" ->
               << BlockStatement(
                    << VarStatement("a", NumLit(1)),
                       Fun("f", <<>>,
                           << ExpressionStatement(
                                Assign(u, 1, "a",
                                    BinaryExpression(Var(u, 2, "a"), "+",
                                                     NumLit(1)))) >>),
                       ExpressionStatement(Call(u, 3, "f", <<>>)),
                       Show(u, 4, Var(u, 5, "a")),
                       ExpressionStatement(Call(u, 6, "f", <<>>)),
                       Show(u, 7, Var(u, 8, "a")) >>) >>
          [] op = "counters" ->
               << Fun("make", <<>>,
                      << VarStatement("n", NumLit(0)),
                         ReturnStatement(
                           LambdaExpression(<<>>,
                             << ReturnStatement(
                                  Assign(u, 1, "n",
                                      BinaryExpression(Var(u, 2, "n"), "+",
                                                       NumLit(1)))) >>)) >>),
                  VarStatement("c", Call(u, 3, "make", <<>>)),
                  VarStatement("d", Call(u, 4, "make", <<>>)),
                  ExpressionStatement(ArrayExpression(
                      << Call(u, 5, "c", <<>>), Call(u, 6, "c", <<>>),
                         Call(u, 7, "d", <<>>), Call(u, 8, "c", <<>>) >>)) >>)

\* where the return programs put their statements
\*   "top"       B
\*   "function"  fun f() { B }           "lambda"  var f = () => { B }
\*   "init"      if (false) { class A { init() { B } } }
\*   "method"    ... class A { m() { B } }
\*   "static"    ... class A { static m() { B } }
\*   "getter"    ... class A { get m { B } }
\*   "setter"    ... class A { set m(v) { B } }
Places ==
    {"top", "function", "lambda", "init", "method", "static", "getter",
     "setter"}

\* the statements B of the return programs
\*   1  return;                     2  return 1;
\*   3  var g = () => 1;            4  class B { m() {} }  return 1;
Bodies ==
    << <<ReturnStatement(NoExpr)>>,
       <<ReturnStatement(NumLit(1))>>,
       <<VarStatement("g",
             LambdaExpression(<<>>, <<ReturnStatement(NumLit(1))>>))>>,
       <<ClassStatement("B", NoExpr,
             <<FunctionStatement("m", <<>>, <<>>, "NORMAL_METHOD")>>),
         ReturnStatement(NumLit(1))>> >>

\* the class A with the one method that has the statements B
ClassOf(op, body) ==
    LET method ==
            CASE op = "init" ->
                   FunctionStatement("init", <<>>, body, "NORMAL_METHOD")
              [] op = "method" ->
                   FunctionStatement("m", <<>>, body, "NORMAL_METHOD")
              [] op = "static" ->
                   FunctionStatement("m", <<>>, body, "STATIC_METHOD")
              [] op = "getter" ->
                   FunctionStatement("m", <<>>, body, "GETTER_METHOD")
              [] op = "setter" ->
                   FunctionStatement("m", <<"v">>, body, "SETTER_METHOD")
    IN  IfStatement(LiteralExpression(Bool(FALSE)),
                    BlockStatement(
                        <<ClassStatement("A", NoExpr, <<method>>)>>),
                    NoStmt)

PlacedReturnProgram(u, op, c) ==
    Source("placed", Args(0, c, 0, 0, op),
        CASE op = "top" -> Bodies[c]
          [] op = "function" -> <<Fun("f", <<>>, Bodies[c])>>
          [] op = "lambda" ->
               <<VarStatement("f", LambdaExpression(<<>>, Bodies[c]))>>
          [] OTHER -> <<ClassOf(op, Bodies[c])>>)

\* the statement S of a declaration program
\*   "declare"   var a = 2;             "self"    var a = a;
\*   "read"      var b = a;             "assign"  var a = (a = 1);
\*   "lambda"    var a = (() => a)();   "function"  fun a() {}
\*   "params"    fun f(a, a) {}         "paramvar"  fun f(a) { var a = 1; }
\*   "foreach"   for (a of []) { var a = 1; }
DeclarationShapes ==
    {"declare", "self", "read", "assign", "lambda", "function", "params",
     "paramvar", "foreach"}

Declaration(u, op) ==
    CASE op = "declare" -> VarStatement("a", NumLit(2))
      [] op = "self" -> VarStatement("a", Var(u, 1, "a"))
      [] op = "read" -> VarStatement("b", Var(u, 1, "a"))
      [] op = "assign" ->
            VarStatement("a", GroupingExpression(Assign(u, 1, "a", NumLit(1))))
      [] op = "lambda" ->
            VarStatement("a",
                CallExpression(
                    GroupingExpression(
                        LambdaExpression(<<>>,
                            <<ReturnStatement(Var(u, 1, "a"))>>)),
                    <<>>))
      [] op = "function" -> Fun("a", <<>>, <<>>)
      [] op = "params" -> Fun("f", <<"a", "a">>, <<>>)
      [] op = "paramvar" -> Fun("f", <<"a">>, <<VarStatement("a", NumLit(1))>>)
      [] op = "foreach" ->
            ForEachStatement("a", ArrayExpression(<<>>),
                BlockStatement(<<VarStatement("a", NumLit(1))>>))

\* { var a = 1; S }        (n = 1, d = 0)
\* { var a = 1; { S } }    (n = 1, d = 1)
\* { S }   and   { { S } } (n = 0)
DeclarationProgram(u, op, n, d) ==
    Source("declaration", Args(n, 0, 0, d, op),
        << BlockStatement(
               (IF n = 1 THEN <<VarStatement("a", NumLit(1))>> ELSE <<>>)
               \o (IF d = 1 THEN <<BlockStatement(<<Declaration(u, op)>>)>>
                   ELSE <<Declaration(u, op)>>)) >>)

\* the callees of the call programs
\*   "function"  g, declared fun g(a, b) { print(9); return a; }
\*   "native"    string          "lambda"  () => print(9)
\*   "nil"  nil    "number"  5    "text"  "a"    "array"  [g]
CalleeShapes ==
    {"function", "native", "lambda", "nil", "number", "text", "array"}

Callee(u, op) ==
    CASE op = "function" -> Var(u, 1, "g")
      [] op = "native" -> Var(u, 1, "string")
      [] op = "lambda" ->
            LambdaExpression(<<>>,
                <<ReturnStatement(Call(u, 1, "print", <<NumLit(9)>>))>>)
      [] op = "nil" -> LiteralExpression(Nil)
      [] op = "number" -> NumLit(5)
      [] op = "text" -> StrLit(<<"a">>)
      [] op = "array" -> ArrayExpression(<<Var(u, 1, "g")>>)

\* what Arity returns for the callable callees
CalleeArity(op) ==
    CASE op = "function" -> 2 [] op = "native" -> 1 [] op = "lambda" -> 0

\* fun g(a, b) { print(9); return a; }
\* (print(0), F)((print(1), 1), ..., (print(m), m))
CallProgram(u, op, m) ==
    Source("call", Args(0, 0, m, 0, op),
        << Fun("g", <<"a", "b">>,
               << Show(u, 2, NumLit(9)), ReturnStatement(Var(u, 3, "a")) >>),
           ExpressionStatement(
               CallExpression(
                   SequenceExpression(
                       << Call(u, 4, "print", <<NumLit(0)>>),
                          Callee(u, op) >>),
                   [i \in 1..m |->
                       SequenceExpression(
                           << Call(u, 4 + i, "print", <<NumLit(i)>>),
                              NumLit(i) >>)])) >>)

\* the values the print programs print: the operands, the native function
\* len, a named function and an array of a string and nil
PrintOperands(u) ==
    Operands
    \o << Var(u, 1, "len"),
          Var(u, 2, "f"),
          ArrayExpression(<<StrLit(<<"a">>), LiteralExpression(Nil)>>) >>

\* fun f() { return 1; } var v = R; [print(v), string(v)]
PrintProgram(u, r) ==
    Source("print", Args(0, 0, r, 0, ""),
        << Fun("f", <<>>, <<ReturnStatement(NumLit(1))>>),
           VarStatement("v", PrintOperands(u)[r]),
           ExpressionStatement(ArrayExpression(
               << Call(u, 3, "print", <<Var(u, 4, "v")>>),
                  Call(u, 5, "string", <<Var(u, 6, "v")>>) >>)) >>)

\* var x = L; var y = R; x op y      (R = 0: var y = x, the same object)
EqualProgram(u, l, r, op) ==
    Source("equal", Args(0, l, r, 0, op),
        << VarStatement("x", Operands[l]),
           VarStatement("y", IF r = 0 THEN Var(u, 1, "x") ELSE Operands[r]),
           ExpressionStatement(
               BinaryExpression(Var(u, 2, "x"), op, Var(u, 3, "y"))) >>)

\* programs that differ in how they end
\*   "sum"     1 + 2
\*   "bump"    var i = 1; i = i + 1
\*   "show"    print(7)
\*   "two"     print(1); print(2); 3
\*   "var"     var a = 1;
\*   "empty"
\*   "block"   { 1; }
\*   "fail"    print(1); nil(); print(2); 3
\*   "failing" print(1); 1 + nil
FinalProgram(u, op) ==
    Source("final", Args(0, 0, 0, 0, op),
        CASE op = "sum" ->
               << ExpressionStatement(
                    BinaryExpression(NumLit(1), "+", NumLit(2))) >>
          [] op = "bump" ->
               << VarStatement("i", NumLit(1)),
                  ExpressionStatement(
                    Assign(u, 1, "i",
                        BinaryExpression(Var(u, 2, "i"), "+", NumLit(1)))) >>
          [] op = "show" -> << Show(u, 1, NumLit(7)) >>
          [] op = "two" ->
               << Show(u, 1, NumLit(1)), Show(u, 2, NumLit(2)),
                  ExpressionStatement(NumLit(3)) >>
          [] op = "var" -> << VarStatement("a", NumLit(1)) >>
          [] op = "empty" -> <<>>
          [] op = "block" ->
               << BlockStatement(<<ExpressionStatement(NumLit(1))>>) >>
          [] op = "fail" ->
               << Show(u, 1, NumLit(1)),
                  ExpressionStatement(
                    CallExpression(LiteralExpression(Nil), <<>>)),
                  Show(u, 2, NumLit(2)),
                  ExpressionStatement(NumLit(3)) >>
          [] op = "failing" ->
               << Show(u, 1, NumLit(1)),
                  ExpressionStatement(
                    BinaryExpression(NumLit(1), "+",
                                     LiteralExpression(Nil))) >>)

FinalShapes ==
    {"sum", "bump", "show", "two", "var", "empty", "block", "fail",
     "failing"}

\* the lines of a session at the prompt
\*   "define"   var a = 1;
\*   "read"     a
\*   "bump"     a = a + 1
\*   "inner"    { var b = 2; nil(); }
\*   "return"   return 1;
\*   "global"   var g = 2; g
\*   "scan"     @
\*   "parse"    var;
Line(u, op) ==
    CASE op = "scan" -> Unscannable("line")
      [] op = "parse" -> Unparsable("line")
      [] OTHER ->
         Source("line", Args(0, 0, 0, 0, op),
            CASE op = "define" -> << VarStatement("a", NumLit(1)) >>
              [] op = "read" -> << ExpressionStatement(Var(u, 1, "a")) >>
              [] op = "bump" ->
                   << ExpressionStatement(
                        Assign(u, 1, "a",
                            BinaryExpression(Var(u, 2, "a"), "+",
                                             NumLit(1)))) >>
              [] op = "inner" ->
                   << BlockStatement(
                        << VarStatement("b", NumLit(2)),
                           ExpressionStatement(
                             CallExpression(LiteralExpression(Nil),
                                            <<>>)) >>) >>
              [] op = "return" -> << ReturnStatement(NumLit(1)) >>
              [] op = "global" ->
                   << VarStatement("g", NumLit(2)),
                      ExpressionStatement(Var(u, 1, "g")) >>)

LineShapes ==
    {"define", "read", "bump", "inner", "return", "scan", "parse", "global"}

\* an input whose run is aborted by `Can only call functions and classes`
\* inside d blocks
\*   "top"     nil();
\*   "block"   { var b = 2; nil(); }
\*   "loop"    while (true) { nil(); }
\*   "call"    fun f() { nil(); }  f();
\*   "none"    { var b = 2; }
AbortShapes == {"top", "block", "loop", "call", "none"}

AbortProgram(u, op, d) ==
    LET abort == ExpressionStatement(
                     CallExpression(LiteralExpression(Nil), <<>>))
    IN  Source("abort", Args(0, 0, 0, d, op),
            CASE op = "top" -> << Nest(abort, d) >>
              [] op = "block" ->
                   << Nest(BlockStatement(<< VarStatement("b", NumLit(2)),
                                             abort >>), d) >>
              [] op = "loop" ->
                   << Nest(LoopStatement(LiteralExpression(Bool(TRUE)),
                                         BlockStatement(<< abort >>),
                                         NoExpr), d) >>
              [] op = "call" ->
                   << Fun("f", <<>>, << abort >>),
                      Nest(ExpressionStatement(Call(u, 1, "f", <<>>)), d) >>
              [] op = "none" ->
                   << Nest(BlockStatement(<< VarStatement("b", NumLit(2)) >>),
                           d) >>)

\* the lines a session may read as its u-th input
Lines(u) ==
    {Line(u, op) : op \in LineShapes}
    \cup {AbortProgram(u, op, d) : op \in AbortShapes, d \in 0..MaxDepth}

\* var y = R; var x; x = () == y        (op "left")
\* var y = R; y == ()                   (op "right")
\* (a statement that begins with () is read by expression as the parameter
\* list of a lambda; primary reads () after an operator)
SequenceProgram(u, r, op) ==
    Source("sequence", Args(0, 0, r, 0, op),
        << VarStatement("y", Operands[r]) >>
        \o (IF op = "left"
            THEN << VarStatement("x", NoExpr),
                    ExpressionStatement(
                        Assign(u, 2, "x",
                               BinaryExpression(SequenceExpression(<<>>),
                                                "==", Var(u, 1, "y")))) >>
            ELSE << ExpressionStatement(
                        BinaryExpression(Var(u, 1, "y"), "==",
                                         SequenceExpression(<<>>))) >>))

\* the keys the map programs store under and ask for
MapKeys == <<"a", "b", "c">>

\* m[key] = value, as a statement
SetKey(u, k, name, key, value) ==
    ExpressionStatement(
        IndexedAssignmentExpression(
            IndexExpression(Var(u, k, name), StrLit(<<key>>), NoExpr),
            value))

\* the statements that build the map m
\*   "empty"   var m = {}
\*   "lit"     var m = {"a": 1}
\*   "nil"     var m = {"a": nil}
\*   "set"     var m = {}; m["a"] = 1
\*   "reset"   var m = {"a": 1}; m["a"] = 2
\*   "two"     var m = {"a": 1}; m["b"] = nil
\*   "dup"     var m = {"b": 1, "b": 2}
\*   "alias"   var m = {"a": 1}; var n = m; n["b"] = 3
MapBuild(u, op) ==
    CASE op = "empty" -> << VarStatement("m", MapExpression(<<>>, <<>>)) >>
      [] op = "lit" ->
           << VarStatement("m", MapExpression(<<StrLit(<<"a">>)>>,
                                              <<NumLit(1)>>)) >>
      [] op = "nil" ->
           << VarStatement("m", MapExpression(<<StrLit(<<"a">>)>>,
                                              <<LiteralExpression(Nil)>>)) >>
      [] op = "set" ->
           << VarStatement("m", MapExpression(<<>>, <<>>)),
              SetKey(u, 1, "m", "a", NumLit(1)) >>
      [] op = "reset" ->
           << VarStatement("m", MapExpression(<<StrLit(<<"a">>)>>,
                                              <<NumLit(1)>>)),
              SetKey(u, 1, "m", "a", NumLit(2)) >>
      [] op = "two" ->
           << VarStatement("m", MapExpression(<<StrLit(<<"a">>)>>,
                                              <<NumLit(1)>>)),
              SetKey(u, 1, "m", "b", LiteralExpression(Nil)) >>
      [] op = "dup" ->
           << VarStatement("m",
                MapExpression(<<StrLit(<<"b">>), StrLit(<<"b">>)>>,
                              <<NumLit(1), NumLit(2)>>)) >>
      [] op = "alias" ->
           << VarStatement("m", MapExpression(<<StrLit(<<"a">>)>>,
                                              <<NumLit(1)>>)),
              VarStatement("n", Var(u, 1, "m")),
              SetKey(u, 2, "n", "b", NumLit(3)) >>

MapShapes == {"empty", "lit", "nil", "set", "reset", "two", "dup", "alias"}

\* the map is built, then: [hasKey(m, K), keys(m), m[K], size(m)]
MapProgram(u, op, c) ==
    Source("map", Args(0, c, 0, 0, op),
        MapBuild(u, op)
        \o << ExpressionStatement(ArrayExpression(
                << Call(u, 3, "hasKey",
                        <<Var(u, 4, "m"), StrLit(<<MapKeys[c]>>)>>),
                   Call(u, 5, "keys", <<Var(u, 6, "m")>>),
                   IndexExpression(Var(u, 7, "m"), StrLit(<<MapKeys[c]>>),
                                   NoExpr),
                   Call(u, 8, "size", <<Var(u, 9, "m")>>) >>)) >>)

\* what the for-of programs loop over
\*   "array" "continue"  [0, ..., n - 1]
\*   "number"  5     "nil"  nil     "string"  "ab"     "map"  {}
OfShapes == {"array", "continue", "number", "nil", "string", "map"}

OfOperand(op, n) ==
    CASE op \in {"array", "continue"} ->
            ArrayExpression([i \in 1..n |-> NumLit(i - 1)])
      [] op = "number" -> NumLit(5)
      [] op = "nil" -> LiteralExpression(Nil)
      [] op = "string" -> StrLit(<<"a", "b">>)
      [] op = "map" -> MapExpression(<<>>, <<>>)

\* for (x of (print(7), A)) { print(x); if (x == c) continue; print(x + 10); }
\* (op "continue"; the other programs have no if statement)
ForOfProgram(u, n, c, op) ==
    Source("forof", Args(n, c, 0, 0, op),
        << ForEachStatement("x",
               SequenceExpression(<< Call(u, 1, "print", <<NumLit(7)>>),
                                     OfOperand(op, n) >>),
               BlockStatement(
                   << Show(u, 2, Var(u, 3, "x")) >>
                   \o (IF op = "continue"
                       THEN << IfStatement(
                                 BinaryExpression(Var(u, 4, "x"), "==",
                                                  NumLit(c)),
                                 ContinueStatement, NoStmt) >>
                       ELSE << >>)
                   \o << Show(u, 5, BinaryExpression(Var(u, 6, "x"), "+",
                                                     NumLit(10))) >>)) >>)

\* the indices the indexed-assignment programs write
\*   "int"   the integer i          "half"  the number i + 0.5
\*   "str"   the string "a"         "nil"   nil
IndexShapes == {"int", "half", "str", "nil"}

AssignIndex(op, i) ==
    CASE op = "int" -> IntLit(i)
      [] op = "half" -> LiteralExpression(Half(i))
      [] op = "str" -> StrLit(<<"a">>)
      [] op = "nil" -> LiteralExpression(Nil)

\* var a = [0, ..., n - 1]; a[I] = 9; [a[I], len(a), a]
AssignProgram(u, n, i, op) ==
    Source("assign", Args(n, i, 0, 0, op),
        << VarStatement("a", ArrayExpression([j \in 1..n |-> NumLit(j - 1)])),
           ExpressionStatement(
               IndexedAssignmentExpression(
                   IndexExpression(Var(u, 1, "a"), AssignIndex(op, i), NoExpr),
                   NumLit(9))),
           ExpressionStatement(ArrayExpression(
               << IndexExpression(Var(u, 2, "a"), AssignIndex(op, i), NoExpr),
                  Call(u, 3, "len", <<Var(u, 4, "a")>>),
                  Var(u, 5, "a") >>)) >>)

\* the statements of the token programs, as token types
\*   "expr"  a        "assign"  a = 1     "var"  var a    "varinit"  var a = 1
\*   "break" "continue" "return"          "returnvalue"  return a
StatementShapes ==
    {"expr", "assign", "var", "varinit", "break", "continue", "return",
     "returnvalue"}

StatementTokens(u, op) ==
    LET a == Token("IDENTIFIER", "a", Nil, u)
        one == Token("NUMBER", "1", Num(1), u)
        kw(type) == Token(type, "", Nil, u)
    IN  CASE op = "expr" -> <<a>>
          [] op = "assign" -> <<a, kw("EQUAL"), one>>
          [] op = "var" -> <<kw("VAR"), a>>
          [] op = "varinit" -> <<kw("VAR"), a, kw("EQUAL"), one>>
          [] op = "break" -> <<kw("BREAK")>>
          [] op = "continue" -> <<kw("CONTINUE")>>
          [] op = "return" -> <<kw("RETURN")>>
          [] op = "returnvalue" -> <<kw("RETURN"), a>>

\* the statement the parser is to make of the tokens of a shape; the
\* statement starts at token position at
StatementNode(u, op, at) ==
    LET one == LiteralExpression(Num(1))
    IN  CASE op = "expr" ->
               ExpressionStatement(VariableExpression(<<u, at>>, "a"))
          [] op = "assign" ->
               ExpressionStatement(
                   AssignmentExpression(<<u, at + 1>>, "a", one))
          [] op = "var" -> VarStatement("a", NoExpr)
          [] op = "varinit" -> VarStatement("a", one)
          [] op = "break" -> BreakStatement
          [] op = "continue" -> ContinueStatement
          [] op = "return" -> ReturnStatement(NoExpr)
          [] op = "returnvalue" ->
               ReturnStatement(VariableExpression(<<u, at + 1>>, "a"))

\* the token types that follow the statement of a token program
Followers ==
    <<"SEMICOLON", "NEW_LINE", "RIGHT_BRACE", "EOF", "IDENTIFIER",
      "RIGHT_PAREN">>

\* S F                 (d = 0; F is nothing when Followers[c] is EOF)
\* { S F }             (d = 1; `{ S }` when Followers[c] is RIGHT_BRACE)
TokenProgram(u, op, c, d) ==
    [kind |-> "tokens", args |-> Args(0, c, 0, d, op), scanError |-> FALSE,
     parseError |-> FALSE, statements |-> <<>>,
     tokens |->
        (IF d = 1 THEN <<Token("LEFT_BRACE", "{", Nil, u)>> ELSE <<>>)
        \o StatementTokens(u, op)
        \o (IF Followers[c] \in {"EOF", "RIGHT_BRACE"} THEN <<>>
            ELSE <<Token(Followers[c],
                         IF Followers[c] = "IDENTIFIER" THEN "b" ELSE "",
                         Nil, u)>>)
        \o (IF d = 1 THEN <<Token("RIGHT_BRACE", "}", Nil, u)>> ELSE <<>>)
        \o <<Token("EOF", "", Nil, u)>>]

\* the token programs: a closing brace follows inside a block only, the end
\* of the text outside one only, and an identifier after a bare return is
\* its value
TokenPrograms(u) ==
    {TokenProgram(u, f[1], f[2], f[3]) :
        f \in {f \in StatementShapes \X (1..Len(Followers)) \X (0..1) :
                 /\ ~(f[1] = "return" /\ Followers[f[2]] = "IDENTIFIER")
                 /\ ~(f[3] = 0 /\ Followers[f[2]] = "RIGHT_BRACE")
                 /\ ~(f[3] = 1 /\ Followers[f[2]] = "EOF")}}

\* var a = [10, .., 10+n-1]; var x = a[lo:hi]; var y = [7, 8, ..m];
\* var z = x + y; [a, x, y, z]            (op "slice")
\* the same with var x = a               (op "whole")
ConcatProgram(u, op, n, lo, hi, m) ==
    Source("concat", Args(n, lo, hi, m, op),
        << VarStatement("a", ArrayExpression([i \in 1..n |-> NumLit(9 + i)])),
           VarStatement("x",
               IF op = "slice"
               THEN IndexExpression(Var(u, 1, "a"), IntLit(lo), IntLit(hi))
               ELSE Var(u, 1, "a")),
           VarStatement("y", ArrayExpression([i \in 1..m |-> NumLit(6 + i)])),
           VarStatement("z",
               BinaryExpression(Var(u, 2, "x"), "+", Var(u, 3, "y"))),
           ExpressionStatement(
               ArrayExpression(<< Var(u, 4, "a"), Var(u, 5, "x"),
                                  Var(u, 6, "y"), Var(u, 7, "z") >>)) >>)

ConcatPrograms(u) ==
    {ConcatProgram(u, "slice", n, lo, hi, m) :
        n \in 1..MaxLen, lo \in 0..(MaxLen - 1), hi \in 0..MaxLen, m \in 0..2}
    \cup {ConcatProgram(u, "whole", n, 0, n, m) : n \in 0..MaxLen, m \in 0..2}

\* the objects of the programs that index the result of a call
\*   "array"  [10, 11]     "string"  "ab"     "map"  {"k": 1}
OnceObjects == <<"array", "string", "map">>

\* var a = OBJECT;
\* fun o() { print(0); return a; }    fun i() { print(1); return 0; }
\* fun j() { print(2); return 1; }    fun v() { print(3); return 5; }
\* o()[i()]   (op "index")    o()[i():j()]   (op "slice")
\* o()[i()] = v()   (op "assign")     (i returns "k" when a is the map)
OnceProgram(u, op, r) ==
    LET c == OnceObjects[r]
        left == IndexExpression(Call(u, 9, "o", <<>>), Call(u, 10, "i", <<>>),
                    IF op = "slice" THEN Call(u, 11, "j", <<>>) ELSE NoExpr)
    IN  Source("once", Args(0, r, 0, 0, op),
            << VarStatement("a",
                   CASE c = "array" -> ArrayExpression(<<NumLit(10), NumLit(11)>>)
                     [] c = "string" -> StrLit(<<"a", "b">>)
                     [] c = "map" -> MapExpression(<<StrLit(<<"k">>)>>,
                                                   <<NumLit(1)>>)),
               Fun("o", <<>>, << Show(u, 1, NumLit(0)),
                                 ReturnStatement(Var(u, 2, "a")) >>),
               Fun("i", <<>>, << Show(u, 3, NumLit(1)),
                                 ReturnStatement(IF c = "map" THEN StrLit(<<"k">>)
                                                 ELSE NumLit(0)) >>),
               Fun("j", <<>>, << Show(u, 5, NumLit(2)),
                                 ReturnStatement(NumLit(1)) >>),
               Fun("v", <<>>, << Show(u, 7, NumLit(3)),
                                 ReturnStatement(NumLit(5)) >>),
               ExpressionStatement(
                   IF op = "assign"
                   THEN IndexedAssignmentExpression(left,
                                                    Call(u, 12, "v", <<>>))
                   ELSE left) >>)

\* a map has no slices and a string no assignment to an index
OncePrograms(u) ==
    {OnceProgram(u, op, r) : op \in {"index", "slice", "assign"},
                             r \in 1..Len(OnceObjects)}
    \ {OnceProgram(u, "slice", 3), OnceProgram(u, "assign", 2)}

\* the loops of the jump programs, none of which runs its body
\*   1  while (false) BODY      2  for (var i = 0; false; i = 1) BODY
\*   3  for (x of []) BODY
JumpLoop(u, c, body) ==
    CASE c = 1 -> LoopStatement(LiteralExpression(Bool(FALSE)), body, NoExpr)
      [] c = 2 -> BlockStatement(
                      << VarStatement("i", NumLit(0)),
                         LoopStatement(LiteralExpression(Bool(FALSE)), body,
                                       Assign(u, 20 + c, "i", NumLit(1))) >>)
      [] c = 3 -> ForEachStatement("x", ArrayExpression(<<>>), body)

\* where the jump J (break or continue) stands; LOOP is the loop c and
\* INNER the loop m, with an empty body
\*   0  LOOP { J; }              1  LOOP { { J; } }
\*   2  LOOP { INNER {} J; }     3  LOOP { INNER { J; } }
\*   4  LOOP { J; INNER {} }     5  J;
\*   6  { J; }                   7  LOOP {} J;
JumpPlaces == 0..7

JumpInside(d) == d \in 0..4

JumpProgram(u, op, c, m, d) ==
    LET J == IF op = "break" THEN BreakStatement ELSE ContinueStatement
        inner == JumpLoop(u, m, BlockStatement(<<>>))
    IN  Source("jump", Args(0, c, m, d, op),
            CASE d = 0 -> << JumpLoop(u, c, BlockStatement(<<J>>)) >>
              [] d = 1 -> << JumpLoop(u, c,
                                 BlockStatement(<<BlockStatement(<<J>>)>>)) >>
              [] d = 2 -> << JumpLoop(u, c, BlockStatement(<<inner, J>>)) >>
              [] d = 3 -> << JumpLoop(u, c, BlockStatement(
                                 <<JumpLoop(u, m, BlockStatement(<<J>>))>>)) >>
              [] d = 4 -> << JumpLoop(u, c, BlockStatement(<<J, inner>>)) >>
              [] d = 5 -> << J >>
              [] d = 6 -> << BlockStatement(<<J>>) >>
              [] d = 7 -> << JumpLoop(u, c, BlockStatement(<<>>)), J >>)

JumpPrograms(u) ==
    {JumpProgram(u, op, c, m, d) :
        op \in {"break", "continue"}, c \in 1..3, m \in 1..3, d \in JumpPlaces}

\* programs whose function holds a jump J (break or continue) of a loop it
\* is declared in
\*   1  for (x of [1]) { fun f() { J; } f(); }
\*   2  var n = 0; while (n < 1) { n = n + 1; fun f() { J; } f(); }
\*   3  for (x of [1]) { var g = () => { J; }; g(); }
\*   4  var h; for (x of [1]) { fun f() { J; } h = f; }  h();
\*   5  fun f() { for (x of [1]) { J; } }  f();
\*   6  fun f() { J; }  f();
AcrossShapes == 1..6

AcrossProgram(u, op, c) ==
    LET J == IF op = "break" THEN BreakStatement ELSE ContinueStatement
        f == Fun("f", <<>>, <<J>>)
        callf == ExpressionStatement(Call(u, 1, "f", <<>>))
        one == ArrayExpression(<<NumLit(1)>>)
    IN  Source("across", Args(0, c, 0, 0, op),
            CASE c = 1 -> << ForEachStatement("x", one,
                                 BlockStatement(<<f, callf>>)) >>
              [] c = 2 ->
                   << VarStatement("n", NumLit(0)),
                      LoopStatement(
                          BinaryExpression(Var(u, 2, "n"), "<", NumLit(1)),
                          BlockStatement(
                              << ExpressionStatement(
                                     Assign(u, 3, "n",
                                         BinaryExpression(Var(u, 4, "n"), "+",
                                                          NumLit(1)))),
                                 f, callf >>),
                          NoExpr) >>
              [] c = 3 ->
                   << ForEachStatement("x", one,
                          BlockStatement(
                              << VarStatement("g", LambdaExpression(<<>>, <<J>>)),
                                 ExpressionStatement(Call(u, 5, "g", <<>>)) >>)) >>
              [] c = 4 ->
                   << VarStatement("h", NoExpr),
                      ForEachStatement("x", one,
                          BlockStatement(
                              << f,
                                 ExpressionStatement(
                                     Assign(u, 6, "h", Var(u, 7, "f"))) >>)),
                      ExpressionStatement(Call(u, 8, "h", <<>>)) >>
              [] c = 5 ->
                   << Fun("f", <<>>,
                          << ForEachStatement("x", one, BlockStatement(<<J>>)) >>),
                      callf >>
              [] c = 6 -> << f, callf >>)

AcrossPrograms(u) ==
    {AcrossProgram(u, op, c) : op \in {"break", "continue"}, c \in AcrossShapes}

\* programs that assign to x, which nothing declares, inside d blocks
\*   1  var y = 1; x = 2;
\*   2  var y = 1; print(x = 2);
\*   3  var y = 1; x = 2; print(3);
\*   4  var y = 1; fun f() { x = 2; print(3); }  f();
\*   5  var y = 1; y = 2;               (the variable is declared)
UndeclaredShapes == 1..5

UndeclaredProgram(u, c, d) ==
    LET set == Assign(u, 1, "x", NumLit(2))
        show == Show(u, 2, NumLit(3))
    IN  Source("undeclared", Args(0, c, 0, d, ""),
            << VarStatement("y", NumLit(1)) >>
            \o CASE c = 1 -> << Nest(ExpressionStatement(set), d) >>
                 [] c = 2 -> << Nest(Show(u, 2, set), d) >>
                 [] c = 3 -> << Nest(BlockStatement(
                                        << ExpressionStatement(set), show >>), d) >>
                 [] c = 4 -> << Fun("f", <<>>, << ExpressionStatement(set), show >>),
                                Nest(ExpressionStatement(Call(u, 3, "f", <<>>)), d) >>
                 [] c = 5 -> << Nest(ExpressionStatement(
                                        Assign(u, 1, "y", NumLit(2))), d) >>)

UndeclaredPrograms(u) ==
    {UndeclaredProgram(u, c, d) : c \in UndeclaredShapes, d \in 0..MaxDepth}

\* the right indices of the slice programs, as written
\*   nil   true   "a"   [1]   1.5   0   1   2   3
RightIndices ==
    << LiteralExpression(Nil), LiteralExpression(Bool(TRUE)), StrLit(<<"a">>),
       ArrayExpression(<<NumLit(1)>>), LiteralExpression(Half(1)),
       NumLit(0), NumLit(1), NumLit(2), NumLit(3) >>

\* [10, 11][lo:R]   (op "array")      "ab"[lo:R]   (op "string")
RightIndexProgram(u, op, lo, r) ==
    Source("rightindex", Args(0, lo, r, 0, op),
        << ExpressionStatement(
               IndexExpression(
                   IF op = "array"
                   THEN ArrayExpression(<<NumLit(10), NumLit(11)>>)
                   ELSE StrLit(<<"a", "b">>),
                   IntLit(lo), RightIndices[r])) >>)

RightIndexPrograms(u) ==
    {RightIndexProgram(u, op, lo, r) :
        op \in {"array", "string"}, lo \in -1..2, r \in 1..Len(RightIndices)}

\* the statements of a method that nests a function g
\*   1  var g = () => 1;                 2  fun g() { return 1; }
\*   3  fun g() { return 1; }  return;   4  fun g() {}  return 1;
NestedBodies ==
    << <<VarStatement("g",
             LambdaExpression(<<>>, <<ReturnStatement(NumLit(1))>>))>>,
       <<Fun("g", <<>>, <<ReturnStatement(NumLit(1))>>)>>,
       <<Fun("g", <<>>, <<ReturnStatement(NumLit(1))>>),
         ReturnStatement(NoExpr)>>,
       <<Fun("g", <<>>, <<>>), ReturnStatement(NumLit(1))>> >>

\* if (false) { class A { METHOD { B } } }, METHOD as in ClassOf
NestedReturnProgram(u, op, c) ==
    Source("nested", Args(0, c, 0, 0, op), <<ClassOf(op, NestedBodies[c])>>)

NestedReturnPrograms(u) ==
    {NestedReturnProgram(u, op, c) :
        op \in {"init", "method", "static", "getter", "setter"},
        c \in 1..Len(NestedBodies)}

\* the token types of the texts
TextTypes ==
    <<"IDENTIFIER", "EQUAL", "SEMICOLON", "NEW_LINE", "LEFT_BRACE",
      "RIGHT_BRACE", "VAR", "RETURN">>

\* the text of the token types ts, which are indices of TextTypes, and EOF
TextProgram(u, ts) ==
    [kind |-> "text", args |-> Args(Len(ts), 0, 0, 0, ""), scanError |-> FALSE,
     parseError |-> FALSE, statements |-> <<>>,
     tokens |->
        [i \in 1..Len(ts) |->
            Token(TextTypes[ts[i]],
                  IF TextTypes[ts[i]] = "IDENTIFIER" THEN "a" ELSE "", Nil, u)]
        \o <<Token("EOF", "", Nil, u)>>]

\* every text of at most MaxTokens tokens
TextPrograms(u) ==
    UNION {{TextProgram(u, ts) : ts \in [1..n -> 1..Len(TextTypes)]} :
           n \in 0..MaxTokens}

\* the files RunFile may be given
Files ==
    Lines(1)
    \cup {FinalProgram(1, op) : op \in FinalShapes}
    \cup {ScopeProgram(1, op) : op \in ScopeShapes}
    \cup {ContinueProgram(1, K, op, c, d) :
            K \in 0..MaxK, op \in {"==", "<", ">="}, c \in 0..MaxK,
            d \in 0..MaxDepth}
    \cup {PlainBreakProgram(1, N, d) : N \in 0..MaxK, d \in 0..MaxDepth}
    \cup {NestedBreakProgram(1, N, d, M) :
            N \in 0..MaxK, d \in 0..MaxDepth, M \in 1..2}
    \cup {ReturnProgram(1, d, op) :
            d \in 0..MaxDepth, op \in {"block", "loop", "foreach"}}
    \cup {ForEachProgram(1, n, c, d, op) :
            n \in 0..MaxK, c \in 0..MaxK, d \in 0..MaxDepth,
            op \in {"break", "continue"}}
    \cup {SliceProgram(1, op, n, lo, hi) :
            op \in {"array", "string"}, n \in 0..MaxLen,
            lo \in -1..(MaxLen + 1), hi \in -1..(MaxLen + 1)}
    \cup {EqualProgram(1, l, r, op) :
            l \in 1..Len(Operands), r \in 0..Len(Operands),
            op \in {"==", "!="}}
    \cup {MapProgram(1, op, c) : op \in MapShapes, c \in 1..Len(MapKeys)}
    \cup TokenPrograms(1)
    \cup TextPrograms(1)
    \cup NestedReturnPrograms(1)
    \cup RightIndexPrograms(1)
    \cup UndeclaredPrograms(1)
    \cup AcrossPrograms(1)
    \cup JumpPrograms(1)
    \cup OncePrograms(1)
    \cup ConcatPrograms(1)
    \cup {DeclarationProgram(1, op, n, d) :
            op \in DeclarationShapes, n \in 0..1, d \in 0..1}
    \cup {PlacedReturnProgram(1, op, c) :
            op \in Places, c \in 1..Len(Bodies)}
    \cup {CaptureProgram(1, op) : op \in CaptureShapes}
    \cup {CallProgram(1, op, m) : op \in CalleeShapes, m \in 0..MaxLen}
    \cup {PrintProgram(1, r) : r \in 1..Len(PrintOperands(1))}
    \cup {ForOfProgram(1, n, c, op) :
            n \in 0..MaxLen, c \in 0..MaxLen, op \in {"array", "continue"}}
    \cup {ForOfProgram(1, 0, 0, op) :
            op \in OfShapes \ {"array", "continue"}}
    \cup {AssignProgram(1, n, i, "int") :
            n \in 0..MaxLen, i \in -1..(MaxLen + 1)}
    \cup {AssignProgram(1, n, i, op) :
            n \in 0..MaxLen, i \in 0..1, op \in IndexShapes \ {"int"}}
    \cup {SequenceProgram(1, r, op) :
            r \in 1..Len(Operands), op \in {"left", "right"}}

-----------------------------------------------------------------------------
(* Classes.  A LoxClass holds its Methods map and its Super pointer; the   *)
(* classes of the heap are numbered, 0 is the nil pointer.  A method is    *)
(* the LoxFunction of a Methods map: home is the class whose map holds it  *)
(* (the identity of the pointer), kind its declaration.Kind and params     *)
(* the number of its declaration.Params.                                   *)

MethodTypes ==
    {"NOT_METHOD", "NORMAL_METHOD", "STATIC_METHOD", "GETTER_METHOD",
     "SETTER_METHOD"}

Method(home, name, kind, params) ==
    [home |-> home, name |-> name, kind |-> kind, params |-> params]

\* the nil *LoxFunction
NoMethod == Method(0, "", "NOT_METHOD", 0)

LoxClass(Name, Methods, Super) ==
    [Name |-> Name, Methods |-> Methods, Super |-> Super]

\* the earlier findMethod: the Methods map of the class alone
findMethodOwn(heap, c, name) ==
    IF name \in DOMAIN heap[c].Methods THEN heap[c].Methods[name] ELSE NoMethod

RECURSIVE findMethod(_, _, _)
findMethod(heap, c, name) ==
    IF name \in DOMAIN heap[c].Methods
    THEN heap[c].Methods[name]
    ELSE IF heap[c].Super # 0
         THEN findMethod(heap, heap[c].Super, name)
         ELSE NoMethod

\* LoxFunction.Arity
MethodArity(method) == method.params

\* LoxClass.Arity
LoxClassArity(heap, c) ==
    LET initializer == findMethod(heap, c, "init")
    IN  IF initializer = NoMethod THEN 0 ELSE MethodArity(initializer)

\* LoxClass.get: the method bound to the class, or the error
LoxClassGet(heap, c, name) ==
    LET method == findMethod(heap, c, name)
    IN  IF method = NoMethod \/ method.kind # "STATIC_METHOD"
        THEN [method |-> NoMethod, err |-> "Undefined property"]
        ELSE [method |-> method, err |-> ""]

\* what an operation on a class returned: op is "" before the first one
Answer(op, c, name, method, arity, err) ==
    [op |-> op, class |-> c, name |-> name, method |-> method,
     arity |-> arity, err |-> err]

NoAnswer == Answer("", 0, "", NoMethod, 0, "")

-----------------------------------------------------------------------------
(* The driver: repl.RunFile, repl.RunPrompt and repl.run.  pc is           *)
(*   "read"       about to take the next input (the file, or a line)       *)
(*   "scan" "parse" "resolve" "interpret"  inside run, before that stage   *)
(*   "ran"        run has returned                                         *)
(*   "exited"     the process has ended                                    *)
(* stages, reported and the out / events / absent fields of ipr observe    *)
(* the run of the current input and start empty with it.                   *)

NoInput == Source("none", Args(0, 0, 0, 0, ""), <<>>)

NoResult == [value |-> Nil, ok |-> FALSE, ended |-> "none", shown |-> FALSE]

Init ==
    /\ mode \in {"file", "prompt"}
    /\ pc = "read"
    /\ input = NoInput
    /\ parser = NewParser(<<>>)
    /\ errors = NewLoxErrors
    /\ ipr = NewInterpreter
    /\ result = NoResult
    /\ stages = <<>>
    /\ reported = {}
    /\ exitCode = -1
    /\ nInputs = 0
    /\ classes = <<>>
    /\ found = NoAnswer

\* run is entered with the source src
Enter(src) ==
    /\ input' = src
    /\ parser' = NewParser(<<>>)
    /\ pc' = "scan"
    /\ nInputs' = nInputs + 1
    /\ stages' = <<>>
    /\ reported' = {}
    /\ result' = NoResult
    /\ ipr' = [ipr EXCEPT !.out = <<>>, !.text = <<>>, !.events = <<>>,
                          !.absent = FALSE, !.reports = <<>>,
                          !.calls = <<>>]
    /\ UNCHANGED <<classes, found, mode, errors, exitCode>>

\* RunFile calls run on the content of the file
FileRead ==
    /\ mode = "file" /\ pc = "read" /\ nInputs = 0
    /\ \E src \in Files : Enter(src)

\* RunPrompt reads a line and calls run on it
LineRead ==
    /\ mode = "prompt" /\ pc = "read" /\ nInputs < MaxInputs
    /\ \E src \in Lines(nInputs + 1) : Enter(src)

\* RunPrompt: ReadString fails at the end of the input, panic(err)
LineEnd ==
    /\ mode = "prompt" /\ pc = "read"
    /\ pc' = "exited"
    /\ exitCode' = 2
    /\ UNCHANGED <<classes, found, mode, input, parser, errors, ipr, result, stages, reported,
                   nInputs>>

\* run: ScanTokens, then the return on HadScanningError
Scan ==
    /\ pc = "scan"
    /\ stages' = Append(stages, "scan")
    /\ errors' = IF input.scanError THEN ScannerError(errors) ELSE errors
    /\ reported' = IF input.scanError THEN reported \cup {"scanning"}
                   ELSE reported
    /\ pc' = IF HadScanningError(errors') THEN "ran" ELSE "parse"
    /\ UNCHANGED <<classes, found, mode, input, parser, ipr, result, exitCode, nInputs>>

\* run: NewParser and Parse, then the return on HadParsingError.  Every
\* ParserError sets the flag of errors.
Parse ==
    /\ pc = "parse"
    /\ stages' = Append(stages, "parse")
    /\ \E p \in {IF input.kind \in {"tokens", "text"}
                  THEN ParserParse(NewParser(input.tokens))
                  ELSE Parsed(input)} :
           /\ parser' = p
           /\ errors' = IF p.messages # <<>> THEN ParserError(errors)
                        ELSE errors
           /\ reported' = IF p.messages # <<>>
                          THEN reported \cup {"parsing"} ELSE reported
    /\ pc' = IF HadParsingError(errors') THEN "ran" ELSE "resolve"
    /\ UNCHANGED <<classes, found, mode, input, ipr, result, exitCode, nInputs>>

\* run: Resolve, then the return on HadResolutionError
Resolving ==
    /\ pc = "resolve"
    /\ stages' = Append(stages, "resolve")
    /\ \E r \in {Resolve(parser.node, ipr.locals)} :
           /\ ipr' = [ipr EXCEPT !.locals = r.locals]
           /\ errors' = IF r.err THEN ResolutionError(errors) ELSE errors
           /\ reported' = IF r.err THEN reported \cup {"resolution"}
                          ELSE reported
    /\ pc' = IF HadResolutionError(errors') THEN "ran" ELSE "interpret"
    /\ UNCHANGED <<classes, found, mode, input, parser, result, exitCode, nInputs>>

\* run: Interpret, then the return on HadRuntimeError or the echo of the
\* value at the prompt.  The errors object is the variable errors; the
\* field of the interpreter state is its copy while Interpret runs.  The
\* order in which the run iterates over Go maps is open.
Interpreting ==
    /\ pc = "interpret"
    /\ stages' = Append(stages, "interpret")
    /\ \E o \in MapOrders :
       \E r \in {Interpret(parser.node,
                           [ipr EXCEPT !.errors = errors, !.order = o])} :
           /\ ipr' = [r.st EXCEPT !.errors = NewLoxErrors]
           /\ errors' = r.st.errors
           /\ reported' = IF r.st.errors # errors
                          THEN reported \cup {"runtime"} ELSE reported
           /\ result' = [value |-> r.value, ok |-> r.ok, ended |-> r.ended,
                         shown |-> /\ ~HadRuntimeError(r.st.errors)
                                   /\ mode = "prompt" /\ r.ok]
    /\ pc' = "ran"
    /\ UNCHANGED <<classes, found, mode, input, parser, exitCode, nInputs>>

\* RunFile after run: os.Exit(65), os.Exit(70), or the return to main
RunFileExit ==
    /\ mode = "file" /\ pc = "ran"
    /\ exitCode' = IF HadParsingError(errors) THEN 65
                   ELSE IF HadRuntimeError(errors) THEN 70
                   ELSE 0
    /\ pc' = "exited"
    /\ UNCHANGED <<classes, found, mode, input, parser, errors, ipr, result, stages, reported,
                   nInputs>>

\* RunPrompt after run: errors.ResetError()
PromptReset ==
    /\ mode = "prompt" /\ pc = "ran"
    /\ errors' = ResetError(errors)
    /\ pc' = "read"
    /\ UNCHANGED <<classes, found, mode, input, parser, ipr, result, stages, reported, exitCode,
                   nInputs>>

Next ==
    \/ FileRead
    \/ LineRead
    \/ LineEnd
    \/ Scan
    \/ Parse
    \/ Resolving
    \/ Interpreting
    \/ RunFileExit
    \/ PromptReset

Spec == Init /\ [][Next]_vars

-----------------------------------------------------------------------------
(* The operations on classes, applied to every heap of at most MaxClasses  *)
(* classes.  A class is created after its superclass, so Super points to   *)
(* a class of smaller number or is nil.  `init` is a NORMAL_METHOD (the    *)
(* resolver refuses any other kind).                                       *)

MethodNames == {"init", "m", "n"}

\* <<"NOT_METHOD", 0>>: the class does not declare the method
InitShapes == {<<"NOT_METHOD", 0>>} \cup {<<"NORMAL_METHOD", a>> : a \in 1 .. 2}

MShapes == {<<"NOT_METHOD", 0>>, <<"NORMAL_METHOD", 0>>, <<"STATIC_METHOD", 1>>}

ClassShapes == [init : InitShapes, m : MShapes]

MethodsOf(c, shape) ==
    LET names == {n \in {"init", "m"} :
                    (IF n = "init" THEN shape.init ELSE shape.m)[1] # "NOT_METHOD"}
    IN  [n \in names |->
            LET sh == IF n = "init" THEN shape.init ELSE shape.m
            IN  Method(c, n, sh[1], sh[2])]

Supers(n) == {f \in [1 .. n -> 0 .. n - 1] : \A c \in 1 .. n : f[c] < c}

ClassHeaps ==
    UNION {{[c \in 1 .. n |-> LoxClass(c, MethodsOf(c, shapes[c]), super[c])] :
              shapes \in [1 .. n -> ClassShapes], super \in Supers(n)} :
           n \in 1 .. MaxClasses}

ClassInit ==
    /\ mode = "file"
    /\ pc = "classes"
    /\ input = NoInput
    /\ parser = NewParser(<<>>)
    /\ errors = NewLoxErrors
    /\ ipr = NewInterpreter
    /\ result = NoResult
    /\ stages = <<>>
    /\ reported = {}
    /\ exitCode = -1
    /\ nInputs = 0
    /\ classes \in ClassHeaps
    /\ found = NoAnswer

\* one operation is applied to the heap
ClassFrame ==
    /\ pc' = "answered"
    /\ UNCHANGED <<mode, input, parser, errors, ipr, result, stages,
                   reported, exitCode, nInputs, classes>>

FindMethod ==
    /\ pc = "classes"
    /\ \E c \in 1 .. Len(classes), name \in MethodNames :
           found' = Answer("findMethod", c, name,
                           findMethod(classes, c, name), 0, "")
    /\ ClassFrame

ClassArity ==
    /\ pc = "classes"
    /\ \E c \in 1 .. Len(classes) :
           found' = Answer("Arity", c, "init", NoMethod,
                           LoxClassArity(classes, c), "")
    /\ ClassFrame

ClassGet ==
    /\ pc = "classes"
    /\ \E c \in 1 .. Len(classes), name \in MethodNames :
           LET got == LoxClassGet(classes, c, name)
           IN  found' = Answer("get", c, name, got.method, 0, got.err)
    /\ ClassFrame

ClassNext ==
    \/ FindMethod
    \/ ClassArity
    \/ ClassGet

ClassSpec == ClassInit /\ [][ClassNext]_vars

-----------------------------------------------------------------------------
(* The properties.                                                         *)

Range(s) == {s[i] : i \in 1..Len(s)}

\* C1: whenever a return, break or continue signal is caught, the handler
\* leaves the current environment equal to the one that was current when
\* the call, loop or iteration began, however many blocks lie between the
\* statement that raised the signal and the construct catching it; and
\* when a call, loop or iteration finishes without a signal the current
\* environment is again the one it started in.
C1_EnvironmentRestored ==
    \A i \in 1..Len(ipr.events) :
        ipr.events[i].after = ipr.events[i].start

\* a break raised inside nested blocks has been caught by its loop: the
\* environment current at the raise was not the one the loop began in
C1_Witness ==
    /\ pc = "ran"
    /\ input.kind = "break"
    /\ input.args.d = MaxDepth
    /\ \E i \in 1..Len(ipr.events) :
           /\ ipr.events[i].ev = "caught"
           /\ ipr.events[i].sig = "break"
           /\ ipr.events[i].raised # ipr.events[i].start

\* C2: getAt / assignAt at a distance the resolver recorded never meet an
\* environment chain that is too short, nor an ancestor that does not
\* hold a binding for the name.
C2_BindingPresent == ipr.absent = FALSE

\* the loop programs' condition on i
Pred(op, c, i) ==
    CASE op = "==" -> i = c
      [] op = "<" -> i < c
      [] op = ">=" -> i >= c

RECURSIVE ContinueTrace(_, _, _, _)
\* what `for (i=0; test(i); i=step(i)) { if (pred(i)) continue; print(i) }`
\* must print from i on: each test, each body that is not skipped, and
\* one increment per iteration before the next test
ContinueTrace(i, K, op, c) ==
    IF i >= K THEN <<CondMark>>
    ELSE <<CondMark>>
         \o (IF Pred(op, c, i) THEN <<>> ELSE <<Num(i)>>)
         \o <<IncMark>>
         \o ContinueTrace(i + 1, K, op, c)

RECURSIVE BreakTrace(_, _)
\* what the inner loop of the nested break program must print from i on
\* when it breaks at N: a test and an increment for each i < N, the test
\* at N, and no more
BreakTrace(i, N) ==
    IF i >= N THEN <<CondMark>>
    ELSE <<CondMark, IncMark>> \o BreakTrace(i + 1, N)

RECURSIVE Repeat(_, _)
Repeat(s, n) == IF n = 0 THEN <<>> ELSE s \o Repeat(s, n - 1)

\* C4: a break ends exactly the innermost enclosing loop at once: no
\* increment for that iteration, no further test of the condition,
\* execution resumes after the loop (an enclosing loop goes on); after
\* `for (i=0;;i=i+1) { if (i==N) break }` the variable i equals N.
C4_BreakEndsLoop ==
    (pc = "ran" /\ input.kind \in {"break", "breaks"}) =>
        /\ result.ended = "none"
        /\ result.ok
        /\ result.value = Num(input.args.n)
        /\ ipr.environment = globals
        /\ ipr.out = IF input.kind = "break" THEN <<>>
                     ELSE Repeat(BreakTrace(0, input.args.n)
                                 \o <<Num(input.args.n)>>, input.args.m)

\* the inner loop has been left twice by a break raised inside nested
\* blocks after MaxK increments, and the outer loop has gone on
C4_Witness ==
    /\ pc = "ran"
    /\ input.kind = "breaks"
    /\ input.args.n = MaxK
    /\ input.args.m = 2
    /\ input.args.d = MaxDepth
    /\ Cardinality({i \in 1..Len(ipr.events) :
                       ipr.events[i].sig = "break"}) = 2

\* C5: RunFile ends the process with 65 when a parse error or a
\* resolution error was reported, with 70 when a runtime error was
\* reported, and with 0 only when no error of any category was reported.
C5_ExitCode ==
    (mode = "file" /\ pc = "exited") =>
        /\ ({"parsing", "resolution"} \cap reported # {} => exitCode = 65)
        /\ ("runtime" \in reported => exitCode = 70)
        /\ (exitCode = 0 => reported = {})

Categories == {"scanning", "parsing", "resolution", "runtime"}

\* the answers of the four queries of a LoxErrors
Queries(l) ==
    [scanning |-> HadScanningError(l), parsing |-> HadParsingError(l),
     resolution |-> HadResolutionError(l), runtime |-> HadRuntimeError(l)]

\* C6: the four error categories are tracked independently: a step that
\* reports an error of one category makes that category's query true and
\* leaves the answers of the other three queries as they were, and
\* ResetError makes all four queries false.
C6_Independent ==
    [][ /\ \A c \in reported' \ reported :
              /\ Queries(errors')[c]
              /\ \A o \in Categories \ {c} :
                     Queries(errors')[o] = Queries(errors)[o]
        /\ PromptReset => \A c \in Categories : ~Queries(errors')[c]
      ]_vars

StageOrder == <<"scan", "parse", "resolve", "interpret">>

\* C7: run executes its stages in the order scan, parse, resolve,
\* interpret, and a later stage starts only if no earlier stage reported
\* an error: no parse after a scanning error, no resolve after a parsing
\* error, no Interpret after a scanning, parsing or resolution error.
C7_StageOrder ==
    /\ Len(stages) <= Len(StageOrder)
    /\ stages = SubSeq(StageOrder, 1, Len(stages))
    /\ pc \in {"parse", "resolve", "interpret"} => reported = {}
    /\ "parse" \in Range(stages) => "scanning" \notin reported
    /\ "resolve" \in Range(stages) =>
           reported \cap {"scanning", "parsing"} = {}
    /\ "interpret" \in Range(stages) =>
           reported \cap {"scanning", "parsing", "resolution"} = {}

\* run has returned after the scanner reported an error, and no later
\* stage has run
C7_Witness ==
    /\ pc = "ran"
    /\ "scanning" \in reported
    /\ stages = <<"scan">>

\* what Interpret must return for the programs that differ in their end,
\* and what they must have printed
FinalExpected(op) ==
    CASE op = "sum" -> [ok |-> TRUE, value |-> Num(3), out |-> <<>>]
      [] op = "bump" -> [ok |-> TRUE, value |-> Num(2), out |-> <<>>]
      [] op = "show" -> [ok |-> TRUE, value |-> Nil, out |-> <<Num(7)>>]
      [] op = "two" ->
            [ok |-> TRUE, value |-> Num(3), out |-> <<Num(1), Num(2)>>]
      [] op = "var" -> [ok |-> FALSE, value |-> Nil, out |-> <<>>]
      [] op = "empty" -> [ok |-> FALSE, value |-> Nil, out |-> <<>>]
      [] op = "block" -> [ok |-> FALSE, value |-> Nil, out |-> <<>>]
      [] op = "fail" -> [ok |-> FALSE, value |-> Nil, out |-> <<Num(1)>>]
      [] op = "failing" -> [ok |-> FALSE, value |-> Nil, out |-> <<Num(1)>>]

\* C8: Interpret executes the statements in order; when the last one is an
\* expression statement and nothing aborted the run it returns (v, true)
\* with v the value of that expression, evaluated exactly once; when the
\* last statement is not an expression statement, or there is none, or an
\* error aborted the run, it returns ok = false.
C8_FinalExpression ==
    (pc = "ran" /\ "interpret" \in Range(stages)) =>
        /\ result.ok <=>
               /\ parser.node # <<>>
               /\ parser.node[Len(parser.node)].t = "expr"
               /\ result.ended = "none"
        /\ input.kind = "final" =>
               /\ result.ok = FinalExpected(input.args.op).ok
               /\ result.value = FinalExpected(input.args.op).value
               /\ ipr.out = FinalExpected(input.args.op).out
               /\ input.args.op = "bump" =>
                      ipr.envs[globals].values["i"] = Num(2)

\* `var i = 1; i = i + 1` has run: Interpret returned (2, true) and i is 2
C8_Witness ==
    /\ pc = "ran"
    /\ input.kind = "final"
    /\ input.args.op = "bump"
    /\ result.ok
    /\ result.value = Num(2)

\* C9: for an array or string of length n and integers lo and hi, the slice
\* [lo:hi] succeeds exactly when 0 <= lo <= hi <= n and then yields the
\* hi - lo elements from lo to hi - 1 in order; for every other pair of
\* integers it is a runtime error.
C9_SliceBounds ==
    (pc = "ran" /\ input.kind = "slice") =>
        LET n == input.args.n
            lo == input.args.c
            hi == input.args.m
        IN  IF 0 <= lo /\ lo <= hi /\ hi <= n
            THEN /\ result.ok
                 /\ reported = {}
                 /\ IF input.args.op = "array"
                    THEN /\ result.value.k = "arr"
                         /\ Elems(ipr.arrs, result.value)
                               = [i \in 1..(hi - lo) |-> Num(lo + i - 1)]
                    ELSE result.value = Str(SubSeq(Letters, lo + 1, hi))
            ELSE /\ ~result.ok
                 /\ result.ended = "error"
                 /\ "runtime" \in reported

\* C10: for any two values == and != evaluate to a boolean and never raise
\* an error: nil, booleans, numbers and strings compare by value, values of
\* different kinds are unequal, and two arrays (or two functions) are equal
\* exactly when they are the same object.
C10_Equality ==
    (pc = "ran" /\ input.kind = "equal") =>
        LET l == input.args.c
            r == input.args.m
            same == r = 0 \/ (l = r /\ Operands[l].t = "lit")
        IN  /\ result.ok
            /\ result.ended = "none"
            /\ reported = {}
            /\ result.value = Bool(same <=> (input.args.op = "=="))

\* C11: the empty sequence expression () evaluates to a value of its own:
\* for every value v a program can obtain in another way (nil, a boolean,
\* a number, a string, an array, a map, a callable) () == v is false.
C11_EmptySequenceDistinct ==
    (pc = "ran" /\ input.kind = "sequence") =>
        /\ result.ok
        /\ result.value = Bool(FALSE)

\* what was stored last under each key of the map a map program builds
MapStored(op) ==
    CASE op = "empty" -> <<>>
      [] op = "lit" -> "a" :> Num(1)
      [] op = "nil" -> "a" :> Nil
      [] op = "set" -> "a" :> Num(1)
      [] op = "reset" -> "a" :> Num(2)
      [] op = "two" -> ("a" :> Num(1)) @@ ("b" :> Nil)
      [] op = "dup" -> "b" :> Num(2)
      [] op = "alias" -> ("a" :> Num(1)) @@ ("b" :> Num(3))

\* C12: for a map built by map literals and indexed assignments and a
\* string k, hasKey(M, k) is true iff k is an element of keys(M) iff a
\* value was stored under exactly the key k, and then M[k] is the value
\* stored last; a stored nil is told from an absent key.
C12_MapKeys ==
    (pc = "ran" /\ input.kind = "map") =>
        LET stored == MapStored(input.args.op)
            k == MapKeys[input.args.c]
            observed == Elems(ipr.arrs, result.value)
            keys == Elems(ipr.arrs, observed[2])
        IN  /\ result.ok
            /\ observed[1] = Bool(k \in DOMAIN stored)
            /\ Len(keys) = Cardinality(DOMAIN stored)
            /\ Range(keys) = {Str(<<key>>) : key \in DOMAIN stored}
            /\ observed[3] = IF k \in DOMAIN stored THEN stored[k] ELSE Nil
            /\ observed[4] = Num(Cardinality(DOMAIN stored))

\* nil was stored under "b" next to "a", the map is iterated from its
\* last pair, and hasKey was asked for "b"
C12_Witness ==
    /\ pc = "ran"
    /\ input.kind = "map"
    /\ input.args.op = "two"
    /\ MapKeys[input.args.c] = "b"
    /\ ipr.order = "backward"
    /\ result.ok

\* C13: for an array a of n elements and an integer i with 0 <= i < n, after
\* a[i] = 9 the read a[i] gives 9, len(a) is n and every other position
\* holds what it held; for an index that is negative, n or more, or not an
\* integer, the run ends with a runtime error and a is as it was.
C13_IndexedAssignment ==
    (pc = "ran" /\ input.kind = "assign") =>
        LET n == input.args.n
            i == input.args.c
            a == ipr.envs[globals].values["a"]
            before == [j \in 1..n |-> Num(j - 1)]
        IN  /\ a.k = "arr"
            /\ IF input.args.op = "int" /\ 0 <= i /\ i < n
               THEN /\ result.ok
                    /\ Elems(ipr.arrs, result.value) = <<Num(9), Num(n), a>>
                    /\ Elems(ipr.arrs, a) =
                           [j \in 1..n |-> IF j = i + 1 THEN Num(9)
                                           ELSE before[j]]
               ELSE /\ ~result.ok
                    /\ result.ended = "error"
                    /\ Elems(ipr.arrs, a) = before

C13_Witness ==
    /\ pc = "ran" /\ input.kind = "assign"
    /\ input.args.op = "int" /\ input.args.n = MaxLen /\ input.args.c = 1
    /\ result.ok
    /\ Elems(ipr.arrs, ipr.envs[globals].values["a"])[2] = Num(9)

\* what the run of element k of a for-of program prints
OfRun(k, c, op) ==
    IF op = "continue" /\ k = c THEN <<Num(k)>> ELSE <<Num(k), Num(k + 10)>>

RECURSIVE OfRuns(_, _, _, _)
OfRuns(k, n, c, op) ==
    IF k >= n THEN <<>> ELSE OfRun(k, c, op) \o OfRuns(k + 1, n, c, op)

\* C14: a for-of statement evaluates its array expression once (one 7 is
\* printed); over an array of n elements the body runs n times, run k with
\* the loop variable bound to element k, a continue only ending that run;
\* over the empty array the body never runs; over a value that is not an
\* array the run ends with a runtime error and the body never runs.
C14_ForOf ==
    (pc = "ran" /\ input.kind = "forof") =>
        IF input.args.op \in {"array", "continue"}
        THEN /\ result.ended = "none"
             /\ ~HadRuntimeError(errors)
             /\ ipr.out = <<Num(7)>> \o OfRuns(0, input.args.n, input.args.c,
                                               input.args.op)
             /\ ipr.environment = globals
        ELSE /\ result.ended = "error"
             /\ HadRuntimeError(errors)
             /\ ipr.out = <<Num(7)>>

C14_Witness ==
    /\ pc = "ran" /\ input.kind = "forof"
    /\ input.args.op = "continue" /\ input.args.n = MaxLen
    /\ input.args.c = 1
    /\ ipr.out = <<Num(7), Num(0), Num(10), Num(1), Num(2), Num(12)>>

\* C15: a simple statement (an expression statement, a var declaration,
\* break, continue, return with or without a value) followed by `;`, by
\* NEW_LINE or by a `}` that the statement leaves to its block is parsed
\* with no error into its node; followed by another token the parser
\* reports `Improperly terminated statement`.
C15_StatementEnd ==
    (pc \in {"resolve", "ran"} /\ input.kind = "tokens"
     /\ Followers[input.args.c] # "EOF") =>
        LET node == StatementNode(1, input.args.op, input.args.d)
        IN  IF Followers[input.args.c] \in
                   {"SEMICOLON", "NEW_LINE", "RIGHT_BRACE"}
            THEN /\ parser.messages = <<>>
                 /\ parser.node = IF input.args.d = 1
                                  THEN <<BlockStatement(<<node>>)>>
                                  ELSE <<node>>
            ELSE /\ parser.messages # <<>>
                 /\ parser.messages[1] = "Improperly terminated statement"

\* C16: print(v) writes a string v as it is and, for a value v of any other
\* kind (nil, a boolean, a number, an array, a map, a callable), writes
\* what string(v) returns, in both cases followed by a newline, and
\* returns nil.
C16_PrintWritesRepresentation ==
    (pc = "ran" /\ input.kind = "print") =>
        LET v == ipr.envs[globals].values["v"]
            observed == Elems(ipr.arrs, result.value)
        IN  /\ result.ok
            /\ observed[1] = Nil
            /\ observed[2].k = "str"
            /\ ipr.text = << (IF v.k = "str" THEN v.s ELSE observed[2].s)
                             \o <<"\n">> >>

\* C17: a call evaluates the callee and then the arguments from left to
\* right; a callee that is not callable is a runtime error; a number of
\* arguments M other than the callee's Arity N is the runtime error
\* `Expected N arguments but got M`, raised before the body runs and before
\* a parameter is bound.
C17_CallChecks ==
    (pc = "ran" /\ input.kind = "call") =>
        LET op == input.args.op
            m == input.args.m
            evaluated == [i \in 1..(m + 1) |-> Num(i - 1)]
        IN  IF op \notin {"function", "native", "lambda"}
            THEN /\ result.ended = "error"
                 /\ ipr.out = evaluated
                 /\ ipr.reports = <<<<"Can only call functions and classes">>>>
            ELSE IF m # CalleeArity(op)
            THEN /\ result.ended = "error"
                 /\ ipr.out = evaluated
                 /\ ipr.reports = <<<<"Expected %d arguments but got %d",
                                      CalleeArity(op), m>>>>
                 /\ Len(ipr.envs) = 1
            ELSE /\ result.ok
                 /\ ipr.reports = <<>>
                 /\ ipr.out = IF op = "native" THEN evaluated
                              ELSE Append(evaluated, Num(9))

C17_Witness ==
    /\ pc = "ran" /\ input.kind = "call"
    /\ input.args.op = "function" /\ input.args.m = 3
    /\ ipr.out = <<Num(0), Num(1), Num(2), Num(3)>>
    /\ ipr.reports = <<<<"Expected %d arguments but got %d", 2, 3>>>>

\* the environment each environment of the heap encloses, from the first
Parents == [e \in 1..Len(ipr.envs) |-> ipr.envs[e].enclosing]

\* C18: a function value holds the environment current at its creation by
\* reference: each call runs in a fresh environment whose parent is the
\* captured one, an assignment to a captured variable made after the
\* creation is seen by later calls, an assignment made inside the function
\* is seen outside, and two evaluations of one function expression in
\* different activations capture different environments
\* (adder(5)(6) is 11 while adder(1)(6) is 7).
C18_CaptureByReference ==
    (pc = "ran" /\ input.kind = "capture") =>
        CASE input.args.op = "adder" ->
               /\ result.ok
               /\ Elems(ipr.arrs, result.value) = <<Num(11), Num(7), Num(11)>>
               /\ Parents = <<0, 1, 1, 2, 3, 2>>
          [] input.args.op = "later" ->
               /\ ipr.out = <<Num(2), Num(3)>>
               /\ Parents = <<0, 1, 2, 2>>
          [] input.args.op = "inside" ->
               /\ ipr.out = <<Num(2), Num(3)>>
               /\ Parents = <<0, 1, 2, 2>>
          [] input.args.op = "counters" ->
               /\ result.ok
               /\ Elems(ipr.arrs, result.value) =
                      <<Num(1), Num(2), Num(1), Num(3)>>
               /\ Parents = <<0, 1, 1, 2, 2, 3, 2>>

C18_Witness ==
    /\ pc = "ran" /\ input.kind = "capture" /\ input.args.op = "adder"
    /\ result.ok
    /\ Elems(ipr.arrs, result.value) = <<Num(11), Num(7), Num(11)>>
    /\ ipr.fns[2].closure # ipr.fns[3].closure

\* C19: the resolver reports an error for a return outside every function
\* and for a return with a value in the body of an initializer or of a
\* setter; it accepts a bare return in an initializer or a setter and every
\* return in a function, a method, a getter or a lambda (the lambda of
\* body 3 included, wherever it stands).
C19_ReturnPlaces ==
    (pc \in {"interpret", "ran"} /\ input.kind = "placed"
     /\ "resolve" \in Range(stages)) =>
        LET op == input.args.op
            c == input.args.c
            refused == \/ op = "top" /\ c \in {1, 2, 4}
                       \/ op \in {"init", "setter"} /\ c \in {2, 4}
        IN  HadResolutionError(errors) <=> refused

\* C20: in a local scope, declaring a name the innermost scope already
\* holds (a repeated parameter included) is a resolution error, and so is
\* reading a name the innermost scope holds as declared and not yet
\* defined (var a = a); no other read or declaration is refused.
C20_DeclareDefine ==
    (pc \in {"interpret", "ran"} /\ input.kind = "declaration"
     /\ "resolve" \in Range(stages)) =>
        LET op == input.args.op
            \* the innermost scope holds a when S is reached
            held == input.args.n = 1 /\ input.args.d = 0
            refused ==
                \/ op \in {"self", "params", "paramvar"}
                \/ op \in {"declare", "assign", "lambda", "function"} /\ held
        IN  HadResolutionError(errors) <=> refused

C20_Witness ==
    /\ pc = "ran" /\ input.kind = "declaration"
    /\ input.args.op = "self" /\ input.args.n = 1 /\ input.args.d = 1
    /\ HadResolutionError(errors)
    /\ stages = <<"scan", "parse", "resolve">>


-----------------------------------------------------------------------------
\* the classes from c up its superclasses, nearest first
RECURSIVE Chain(_, _)
Chain(heap, c) ==
    IF c = 0 THEN <<>> ELSE <<c>> \o Chain(heap, heap[c].Super)

\* the definition of name in the nearest class of the chain that has one
Nearest(heap, c, name) ==
    LET chain == Chain(heap, c)
        definers == {k \in 1 .. Len(chain) : name \in DOMAIN heap[chain[k]].Methods}
    IN  IF definers = {}
        THEN NoMethod
        ELSE heap[chain[CHOOSE k \in definers : \A l \in definers : k <= l]].Methods[name]

\* C21: findMethod returns the definition of the nearest class of the
\* superclass chain, starting at the class itself, that defines the name, and
\* nothing when no class of the chain does; the arity of a class is the arity
\* of the init found this way, or 0; get on a class yields a method only when
\* the method found is static.
C21_MethodLookup ==
    LET nearest == Nearest(classes, found.class, found.name)
    IN  /\ found.op = "findMethod" => found.method = nearest
        /\ found.op = "Arity" =>
               found.arity = IF nearest = NoMethod THEN 0 ELSE nearest.params
        /\ found.op = "get" =>
               /\ found.err = "" <=>
                      nearest # NoMethod /\ nearest.kind = "STATIC_METHOD"
               /\ found.err = "" => found.method = nearest
               /\ found.err # "" => found.method = NoMethod

\* a subclass and its superclass both define m and the lookup on the subclass
\* returned the subclass's definition
C21_Witness ==
    /\ found.op = "findMethod" /\ found.name = "m" /\ found.class = 2
    /\ classes[2].Super = 1
    /\ "m" \in DOMAIN classes[1].Methods
    /\ found.method.home = 2


-----------------------------------------------------------------------------
\* C22: after Interpret has returned, normally or aborted by a runtime error,
\* the current environment of the interpreter is the globals environment.
C22_EnvironmentGlobal ==
    (pc = "ran" /\ stages = <<"scan", "parse", "resolve", "interpret">>)
        => ipr.environment = globals


-----------------------------------------------------------------------------
\* the elements of the k-th array of the array the run returned
Returned(k) == Elems(ipr.arrs, Elems(ipr.arrs, result.value)[k])

\* C23: x + y for two arrays is an array of the elements of x followed by
\* those of y, and the arrays that existed before keep their elements: x, y
\* and the array x is a slice of.
C23_ConcatFrame ==
    (pc = "ran" /\ input.kind = "concat" /\ result.ok) =>
        LET n == input.args.n
            a == [i \in 1..n |-> Num(9 + i)]
            x == IF input.args.op = "slice"
                 THEN SubSeq(a, input.args.c + 1, input.args.m)
                 ELSE a
            y == [i \in 1..input.args.d |-> Num(6 + i)]
        IN  /\ Returned(4) = x \o y
            /\ Returned(1) = a
            /\ Returned(2) = x
            /\ Returned(3) = y


-----------------------------------------------------------------------------
\* C24: obj[i], obj[lo:hi] and obj[i] = v evaluate each of their operands
\* exactly once, from left to right.
C24_OperandsOnce ==
    (pc = "ran" /\ input.kind = "once") =>
        /\ result.ok
        /\ ipr.out = CASE input.args.op = "index" -> <<Num(0), Num(1)>>
                       [] input.args.op = "slice" -> <<Num(0), Num(1), Num(2)>>
                       [] input.args.op = "assign" -> <<Num(0), Num(1), Num(3)>>


-----------------------------------------------------------------------------
\* C25: the resolver accepts a break or continue that stands inside the body
\* of a loop, wherever in the body and whether or not a nested loop precedes
\* it, and refuses one that stands inside no loop.
C25_JumpPlaces ==
    (input.kind = "jump" /\ Len(stages) >= 3 /\ stages[3] = "resolve") =>
        (HadResolutionError(errors) <=> ~JumpInside(input.args.d))


-----------------------------------------------------------------------------
\* C26: in a program the resolver accepts, a LoxFunction.Call ends by normal
\* completion, by a return signal or by a runtime error: a break or continue
\* raised during an activation is caught by a loop within that activation.
C26_JumpStaysInCall ==
    (pc = "ran" /\ stages = <<"scan", "parse", "resolve", "interpret">>) =>
        \A k \in 1..Len(ipr.calls) : ipr.calls[k] \in {"none", "return", "error"}


-----------------------------------------------------------------------------
\* no environment binds x, and y has the value it was declared with
UndeclaredFrame ==
    /\ \A e \in 1..Len(ipr.envs) : "x" \notin DOMAIN ipr.envs[e].values
    /\ ipr.envs[globals].values["y"] = Num(1)

\* C27: an assignment to a variable that no scope and not globals declares
\* raises the runtime error `Undefined variable` (the run is abandoned there)
\* and creates or changes no binding.
C27_UndefinedAssignment ==
    (pc = "ran" /\ input.kind = "undeclared" /\ nInputs = 1
        /\ input.args.c # 5) =>
        /\ HadRuntimeError(errors)
        /\ result.ended = "error"
        /\ ipr.out = <<>>
        /\ UndeclaredFrame


-----------------------------------------------------------------------------
\* C28: obj[lo:hi] on an array or string yields a slice or raises a runtime
\* error; a right index that is not an integer-valued number gives `Index
\* must be integer`; the value is never the single element obj[lo].
C28_RightIndex ==
    (pc = "ran" /\ input.kind = "rightindex") =>
        LET right == RightIndices[input.args.m]
            integer == /\ right.t = "lit" /\ right.v.k = "num"
                       /\ isInteger(right.v)
            sliced == /\ result.ok
                      /\ integer
                      /\ IF input.args.op = "array"
                         THEN /\ result.value.k = "arr"
                              /\ result.value.len = right.v.n - input.args.c
                         ELSE /\ result.value.k = "str"
                              /\ Len(result.value.s) = right.v.n - input.args.c
            failed == result.ended = "error" /\ HadRuntimeError(errors)
        IN  /\ sliced \/ failed
            /\ ~integer =>
                   failed /\ ipr.reports = <<<<"Index must be integer">>>>


-----------------------------------------------------------------------------
\* C29: a return with a value is refused in the body of an initializer or a
\* setter itself and accepted in a function or lambda nested in it; after
\* the nested function the body is an initializer or setter body again.
C29_NestedReturn ==
    (input.kind = "nested" /\ Len(stages) >= 3 /\ stages[3] = "resolve") =>
        (HadResolutionError(errors) <=>
            (input.args.op \in {"init", "setter"} /\ input.args.c = 4))


-----------------------------------------------------------------------------
=============================================================================
